---- MODULE Spec2Model ----
(***************************************************************************)
(* A model of github.com/jaffee/commandeer (com.go): binding the fields of *)
(* a struct to the flags of a flag collection, loading flag values from    *)
(* the environment, and the LoadArgsEnv / RunArgs call sequences.          *)
(*                                                                         *)
(* Go strings are sequences of one-character strings, so that ToUpper,     *)
(* Replace and Split are computed character by character.                  *)
(***************************************************************************)
EXTENDS Integers, Sequences, FiniteSets, TLC

----------------------------------------------------------------------------
(* Characters and strings *)

Lower == <<"a","b","c","d","e","f","g","h","i","j","k","l","m",
           "n","o","p","q","r","s","t","u","v","w","x","y","z">>
Upper == <<"A","B","C","D","E","F","G","H","I","J","K","L","M",
           "N","O","P","Q","R","S","T","U","V","W","X","Y","Z">>
Digits == <<"0","1","2","3","4","5","6","7","8","9">>

\* The characters of the model in ASCII order (the order of sort.Strings).
Ascii == <<"!", "+", ",", "-", ".">> \o Digits \o <<"=">> \o Upper \o <<"_">> \o Lower

IndexOf(seq, c) == IF \E i \in DOMAIN seq : seq[i] = c
                   THEN CHOOSE i \in DOMAIN seq : seq[i] = c
                   ELSE 0

Chars == {Ascii[i] : i \in DOMAIN Ascii}

\* The tables of unicode.IsUpper, unicode.ToUpper and unicode.ToLower on the
\* characters of the model, and the byte order
RankOf  == [c \in Chars |-> IndexOf(Ascii, c)]
UpperOf == [c \in Chars |-> IF IndexOf(Lower, c) # 0 THEN Upper[IndexOf(Lower, c)] ELSE c]
LowerOf == [c \in Chars |-> IF IndexOf(Upper, c) # 0 THEN Lower[IndexOf(Upper, c)] ELSE c]
DigitOf == [c \in Chars |-> IndexOf(Digits, c) - 1]

IsUpper(c) == c \in Chars /\ UpperOf[c] = c /\ LowerOf[c] # c
IsDigit(c) == c \in Chars /\ DigitOf[c] >= 0
ToUpperChar(c) == IF c \in Chars THEN UpperOf[c] ELSE c
ToLowerChar(c) == IF c \in Chars THEN LowerOf[c] ELSE c

\* strings.ToUpper
ToUpper(s) == [i \in DOMAIN s |-> ToUpperChar(s[i])]

\* replacer.Replace: "-" -> "_", "." -> "_"
Replace(s) == [i \in DOMAIN s |-> IF s[i] \in {"-", "."} THEN "_" ELSE s[i]]

envNorm(name) == ToUpper(Replace(name))

\* s < t in byte order
RECURSIVE StrLess(_, _)
StrLess(s, t) ==
    IF t = <<>> THEN FALSE
    ELSE IF s = <<>> THEN TRUE
    ELSE IF s[1] = t[1] THEN StrLess(Tail(s), Tail(t))
    ELSE RankOf[s[1]] < RankOf[t[1]]

\* strings.Split(s, sep) for a one-character separator: never empty, "" gives [""].
RECURSIVE SplitFrom(_, _, _)
SplitFrom(s, sep, cur) ==
    IF s = <<>> THEN <<cur>>
    ELSE IF s[1] = sep THEN <<cur>> \o SplitFrom(Tail(s), sep, <<>>)
    ELSE SplitFrom(Tail(s), sep, Append(cur, s[1]))

Split(s, sep) == SplitFrom(s, sep, <<>>)

\* The value of a string of digits in the given base; -1 when a character is
\* no digit of that base.
RECURSIVE DigitsVal(_, _, _)
DigitsVal(s, base, acc) ==
    IF s = <<>> THEN acc
    ELSE IF ~IsDigit(s[1]) \/ DigitOf[s[1]] >= base THEN -1
    ELSE DigitsVal(Tail(s), base, acc * base + DigitOf[s[1]])

Unsigned(s, base) ==
    IF s = <<>> \/ DigitsVal(s, base, 0) < 0
    THEN [ok |-> FALSE, v |-> 0]
    ELSE [ok |-> TRUE, v |-> DigitsVal(s, base, 0)]

Signed(s, base0) ==
    LET neg  == s # <<>> /\ s[1] = "-"
        body == IF s # <<>> /\ s[1] \in {"-", "+"} THEN Tail(s) ELSE s
        \* base 0: a leading "0" followed by more digits selects octal
        oct  == base0 /\ Len(body) > 1 /\ body[1] = "0"
        u    == IF oct THEN Unsigned(Tail(body), 8) ELSE Unsigned(body, 10)
    IN  [ok |-> u.ok, v |-> IF neg THEN 0 - u.v ELSE u.v]

\* strconv.ParseInt(s, 0, 64) on the characters of the model
ParseInt(s) == Signed(s, TRUE)
\* strconv.Atoi(s)
Atoi(s) == Signed(s, FALSE)

\* strconv.ParseBool
ParseBool(s) ==
    IF s \in { <<"1">>, <<"t">>, <<"T">>, <<"t","r","u","e">>,
               <<"T","R","U","E">>, <<"T","r","u","e">> }
    THEN [ok |-> TRUE, v |-> TRUE]
    ELSE IF s \in { <<"0">>, <<"f">>, <<"F">>, <<"f","a","l","s","e">>,
                    <<"F","A","L","S","E">>, <<"F","a","l","s","e">> }
    THEN [ok |-> TRUE, v |-> FALSE]
    ELSE [ok |-> FALSE, v |-> FALSE]

\* strconv.Itoa of a number that is not negative
RECURSIVE Itoa(_)
Itoa(n) == IF n < 10 THEN <<Digits[n + 1]>> ELSE Itoa(n \div 10) \o <<Digits[(n % 10) + 1]>>

\* The seconds a unit of time.ParseDuration stands for, among the units of
\* whole seconds; 0 for what is no such unit
UnitSeconds(u) ==
    CASE u = <<"h">> -> 3600
      [] u = <<"m">> -> 60
      [] u = <<"s">> -> 1
      [] OTHER -> 0

\* The longest prefix of s that is all digits, and the longest that has none
RECURSIVE LeadDigits(_)
LeadDigits(s) ==
    IF s = <<>> \/ ~IsDigit(s[1]) THEN <<>> ELSE <<s[1]>> \o LeadDigits(Tail(s))

RECURSIVE LeadUnit(_)
LeadUnit(s) ==
    IF s = <<>> \/ IsDigit(s[1]) \/ s[1] = "." THEN <<>> ELSE <<s[1]>> \o LeadUnit(Tail(s))

\* The loop of time.ParseDuration over the terms "<digits><unit>" of s, the
\* durations counted in seconds
RECURSIVE parseTerms(_, _)
parseTerms(s, acc) ==
    IF s = <<>> THEN [ok |-> TRUE, v |-> acc]
    ELSE LET ds == LeadDigits(s)
             u  == LeadUnit(SubSeq(s, Len(ds) + 1, Len(s)))
         IN  IF ds = <<>> \/ UnitSeconds(u) = 0 THEN [ok |-> FALSE, v |-> 0]
             ELSE parseTerms(SubSeq(s, Len(ds) + Len(u) + 1, Len(s)),
                             acc + DigitsVal(ds, 10, 0) * UnitSeconds(u))

\* time.ParseDuration(s): an optional sign, then "0" or one or more terms
ParseDuration(s) ==
    LET neg  == s # <<>> /\ s[1] = "-"
        body == IF s # <<>> /\ s[1] \in {"-", "+"} THEN Tail(s) ELSE s
        r    == parseTerms(body, 0)
    IN  IF body = <<"0">> THEN [ok |-> TRUE, v |-> 0]
        ELSE IF body = <<>> \/ ~r.ok THEN [ok |-> FALSE, v |-> 0]
        ELSE [ok |-> TRUE, v |-> IF neg THEN 0 - r.v ELSE r.v]

\* time.Duration.String() of a duration of whole seconds: "0s", "11s",
\* "11m30s", "1h0m0s"
DurationAbs(d) ==
    (IF d >= 3600 THEN Itoa(d \div 3600) \o <<"h">> ELSE <<>>)
        \o (IF d >= 60 THEN Itoa((d % 3600) \div 60) \o <<"m">> ELSE <<>>)
        \o Itoa(d % 60) \o <<"s">>

DurationString(d) == IF d < 0 THEN <<"-">> \o DurationAbs(0 - d) ELSE DurationAbs(d)

----------------------------------------------------------------------------
(* Name derivation *)

\* A struct tag that is absent (Tag.Lookup returns ok = false).
NoTag == <<"<absent>">>

\* The mutant of dadStep: past the last character nothing is upper case.
dadStepNoCarry(st, input, i) ==
    LET nextUpper == i + 1 <= Len(input) /\ IsUpper(input[i + 1])
        chr == input[i]
    IN  IF IsUpper(chr)
        THEN [ret |-> IF st.ret = <<>> \/ (st.lastUpper /\ nextUpper)
                      THEN Append(st.ret, ToLowerChar(chr))
                      ELSE st.ret \o <<"-", ToLowerChar(chr)>>,
              lastUpper |-> TRUE, nextUpper |-> nextUpper]
        ELSE [ret |-> Append(st.ret, chr), lastUpper |-> FALSE, nextUpper |-> nextUpper]

\* One iteration of downcaseAndDash's loop over the characters of input.
dadStep(st, input, i) ==
    LET nextUpper == IF i + 1 <= Len(input) THEN IsUpper(input[i + 1]) ELSE st.nextUpper
        chr == input[i]
    IN  IF IsUpper(chr)
        THEN [ret |-> IF st.ret = <<>> \/ (st.lastUpper /\ nextUpper)
                      THEN Append(st.ret, ToLowerChar(chr))
                      ELSE st.ret \o <<"-", ToLowerChar(chr)>>,
              lastUpper |-> TRUE, nextUpper |-> nextUpper]
        ELSE [ret |-> Append(st.ret, chr), lastUpper |-> FALSE, nextUpper |-> nextUpper]

RECURSIVE dadLoop(_, _, _)
dadLoop(st, input, i) ==
    IF i > Len(input) THEN st.ret ELSE dadLoop(dadStep(st, input, i), input, i + 1)

downcaseAndDash(input) ==
    dadLoop([ret |-> <<>>, lastUpper |-> FALSE, nextUpper |-> FALSE], input, 1)

\* The mutant of flagName: the "json" tag is not looked at.
flagNameNoJson(field) ==
    IF field.tags.flag # NoTag THEN field.tags.flag
    ELSE downcaseAndDash(field.name)

\* flagName: the "flag" tag, else the "json" tag, else the dashed field name.
flagName(field) ==
    IF field.tags.flag # NoTag THEN field.tags.flag
    ELSE IF field.tags.json # NoTag THEN field.tags.json
    ELSE downcaseAndDash(field.name)

----------------------------------------------------------------------------
(* Errors: nil, or the "step: step: message" chain built by fmt.Errorf *)

NoErr == [steps |-> <<>>, msg |-> "", args |-> <<>>]
Err(msg, args) == [steps |-> <<>>, msg |-> msg, args |-> args]
\* fmt.Errorf(step + ": %v", e)
Wrap(step, e) == [e EXCEPT !.steps = <<step>> \o e.steps]

----------------------------------------------------------------------------
(* Field types: the Go type, its reflect.Kind, the element kind of a slice, *)
(* and whether the pointer to it implements encoding.TextMarshaler and     *)
(* encoding.TextUnmarshaler.                                               *)

Typ(name, kind, elem, enc) == [name |-> name, kind |-> kind, elem |-> elem, enc |-> enc]

TString      == Typ("string", "string", "", FALSE)
TInt         == Typ("int", "int", "", FALSE)
TBool        == Typ("bool", "bool", "", FALSE)
TStringSlice == Typ("[]string", "slice", "string", FALSE)
TIntSlice    == Typ("[]int", "slice", "int", FALSE)
TStruct      == Typ("struct", "struct", "", FALSE)

\* A struct field: its identity in the struct value (the path of Go field
\* names), its Go name, whether it is exported (PkgPath == ""), its tags, its
\* type, and for a struct-typed field the fields of that struct.
Field(id, name, exported, flag, json, short, typ, sub) ==
    [id |-> id, name |-> name, exported |-> exported,
     tags |-> [flag |-> flag, json |-> json, short |-> short],
     typ |-> typ, sub |-> sub]

\* test.SimpleMain, shortened to One, Two and Nine
SimpleMain ==
    << Field("One", <<"O","n","e">>, TRUE, NoTag, NoTag, NoTag, TString, <<>>),
       Field("Two", <<"T","w","o">>, TRUE, NoTag, NoTag, NoTag, TInt, <<>>),
       Field("Nine", <<"N","i","n","e">>, TRUE, NoTag, NoTag, NoTag, TStringSlice, <<>>) >>

\* test.MyMain, shortened: an unexported field, an ignored field, a bool with
\* a shorthand, a slice that only a PFlagger binds, and a nested struct.
MyMain ==
    << Field("wing", <<"w","i","n","g">>, FALSE, <<"w","i","n","g">>, NoTag, NoTag, TString, <<>>),
       Field("Bing", <<"B","i","n","g">>, TRUE, <<"-">>, NoTag, NoTag, TString, <<>>),
       Field("Abool", <<"A","b","o","o","l">>, TRUE, <<"a","-","b","o","o","l">>, NoTag, <<"b">>,
             TBool, <<>>),
       Field("AIntSlice", <<"A","I","n","t","S","l","i","c","e">>, TRUE, NoTag, NoTag, NoTag,
             TIntSlice, <<>>),
       Field("SubThing", <<"S","u","b","T","h","i","n","g">>, TRUE,
             <<"s","u","b","t","h","i","n","g">>, NoTag, NoTag, TStruct,
             << Field("SubThing.SubBool", <<"S","u","b","B","o","o","l">>, TRUE,
                      <<"a","-","b","o","o","l">>, NoTag, NoTag, TBool, <<>>) >>) >>

\* NonRunner of the tests: one int field, no Run method
NonRunner ==
    << Field("A", <<"A">>, TRUE, NoTag, NoTag, NoTag, TInt, <<>>) >>

StructIds == {"SimpleMain", "MyMain", "NonRunner"}

FieldsOf(sid) ==
    CASE sid = "SimpleMain" -> SimpleMain
      [] sid = "MyMain"     -> MyMain
      [] sid = "NonRunner"  -> NonRunner

\* main.(Runner): *SimpleMain and *MyMain have a Run method
ImplementsRunner(sid) == sid \in {"SimpleMain", "MyMain"}

\* The struct literals the callers pass (NewSimpleMain, NewMyMain, &NonRunner{})
Literal(sid) ==
    CASE sid = "SimpleMain" ->
           [One |-> <<"o","n","e">>, Two |-> 2, Nine |-> << <<"9">>, <<"n","i","n","e">> >>]
      [] sid = "MyMain" ->
           ("wing" :> <<>>) @@ ("Bing" :> <<>>) @@ ("Abool" :> FALSE)
           @@ ("AIntSlice" :> <<9, -8, 7>>) @@ ("SubThing.SubBool" :> TRUE)
      [] sid = "NonRunner" -> [A |-> 0]

\* The most fields of a struct put together from the fields below.
MaxFields == 2

TFloat64 == Typ("float64", "float64", "", FALSE)
TInt16   == Typ("int16", "int16", "", FALSE)
TIPNet   == Typ("net.IPNet", "struct", "", FALSE)
TChan    == Typ("chan int", "chan", "", FALSE)

\* test.Recursion, its bool with a shorthand
Recursion ==
    << Field("SubThing.Recursion.NestBool", <<"N","e","s","t","B","o","o","l">>, TRUE,
             <<"b","-","b","o","o","l">>, NoTag, <<"b">>, TBool, <<>>) >>

\* test.SubThing
SubThing ==
    << Field("SubThing.SubBool", <<"S","u","b","B","o","o","l">>, TRUE,
             <<"a","-","b","o","o","l">>, NoTag, NoTag, TBool, <<>>),
       Field("SubThing.Recursion", <<"R","e","c","u","r","s","i","o","n">>, TRUE,
             <<"r","e","c","u","r","s","i","o","n">>, NoTag, NoTag, TStruct, Recursion) >>

\* The fields structs are put together from: fields of test.MyMain, and
\* fields with the tags and types the binding rules tell apart (unexported,
\* ignored, empty flag tag, shorthands that are reserved, repeated, two
\* characters long, not ASCII or empty, a type no collection binds).
Pool ==
    << Field("Aint", <<"A","i","n","t">>, TRUE, <<"a","-","i","n","t">>, NoTag, NoTag,
             TInt, <<>>),
       Field("Afloat", <<"A","f","l","o","a","t">>, TRUE, <<"a","-","f","l","o","a","t">>,
             NoTag, NoTag, TFloat64, <<>>),
       Field("hidden", <<"h","i","d","d","e","n">>, FALSE, NoTag, NoTag, <<"b">>,
             TChan, <<>>),
       Field("Bing", <<"B","i","n","g">>, TRUE, <<"-">>, NoTag, <<"b">>, TChan, <<>>),
       Field("Empty", <<"E","m","p","t","y">>, TRUE, <<>>, <<"e","m","p","t","y">>, <<"b">>,
             TChan, <<>>),
       Field("Abool", <<"A","b","o","o","l">>, TRUE, <<"a","-","b","o","o","l">>, NoTag,
             <<"b">>, TBool, <<>>),
       Field("Bbool", <<"B","b","o","o","l">>, TRUE, NoTag, NoTag, <<"b">>, TBool, <<>>),
       Field("Help", <<"H","e","l","p">>, TRUE, NoTag, NoTag, <<"h">>, TBool, <<>>),
       Field("Both", <<"B","o","t","h">>, TRUE, NoTag, NoTag, <<"b","c">>, TBool, <<>>),
       Field("Accent", <<"A","c","c","e","n","t">>, TRUE, NoTag, NoTag, <<"U+00E9">>,
             TBool, <<>>),
       Field("Aint16", <<"A","i","n","t","1","6">>, TRUE, NoTag,
             <<"a","n","i","n","t","1","6">>, NoTag, TInt16, <<>>),
       Field("AIPNet", <<"A","I","P","N","e","t">>, TRUE, NoTag, NoTag, NoTag, TIPNet, <<>>),
       Field("Quiet", <<"Q","u","i","e","t">>, TRUE, NoTag, NoTag, <<>>, TBool, <<>>),
       Field("SubThing", <<"S","u","b","T","h","i","n","g">>, TRUE,
             <<"s","u","b","t","h","i","n","g">>, NoTag, NoTag, TStruct, SubThing),
       Field("Chan", <<"C","h","a","n">>, TRUE, NoTag, NoTag, NoTag, TChan, <<>>) >>

\* The values the fields above hold in the struct literal passed
PoolValues ==
    ("Aint" :> 5) @@ ("Afloat" :> 12) @@ ("hidden" :> "chan") @@ ("Bing" :> "chan")
    @@ ("Empty" :> "chan") @@ ("Abool" :> TRUE) @@ ("Bbool" :> TRUE) @@ ("Help" :> TRUE)
    @@ ("Both" :> TRUE) @@ ("Accent" :> TRUE) @@ ("Aint16" :> 30) @@ ("AIPNet" :> "1.2.3.4/24")
    @@ ("Quiet" :> TRUE) @@ ("SubThing.SubBool" :> TRUE)
    @@ ("SubThing.Recursion.NestBool" :> TRUE) @@ ("Chan" :> "chan")

\* The structs of up to MaxFields different fields of the pool, each given
\* by the indexes of its fields in declaration order
Picks ==
    {p \in UNION {[1..n -> DOMAIN Pool] : n \in 0..MaxFields} :
        \A i, j \in DOMAIN p : i # j => p[i] # p[j]}

\* The types of fields the two switches of setFlags tell apart: the concrete
\* types (of them *net.IP is text-encodable too), test.MyDuration and
\* time.Time (both text-encodable), the basic
\* kinds, the kinds only a PFlagger binds, slices, two named types that are
\* not encodable (type MyInt int, type Strs []string) and a channel
TDuration   == Typ("time.Duration", "int64", "", FALSE)
TIP         == Typ("net.IP", "slice", "uint8", TRUE)
TIPMask     == Typ("net.IPMask", "slice", "uint8", FALSE)
TIPSlice    == Typ("[]net.IP", "slice", "slice", FALSE)
TMyDuration == Typ("test.MyDuration", "int64", "", TRUE)
TTime       == Typ("time.Time", "struct", "", TRUE)
TInt64      == Typ("int64", "int64", "", FALSE)
TUint       == Typ("uint", "uint", "", FALSE)
TUint64     == Typ("uint64", "uint64", "", FALSE)
TInt8       == Typ("int8", "int8", "", FALSE)
TInt32      == Typ("int32", "int32", "", FALSE)
TUint8      == Typ("uint8", "uint8", "", FALSE)
TUint16     == Typ("uint16", "uint16", "", FALSE)
TUint32     == Typ("uint32", "uint32", "", FALSE)
TFloat32    == Typ("float32", "float32", "", FALSE)
TBoolSlice  == Typ("[]bool", "slice", "bool", FALSE)
TUintSlice  == Typ("[]uint", "slice", "uint", FALSE)
TFloatSlice == Typ("[]float64", "slice", "float64", FALSE)
TMyInt      == Typ("MyInt", "int", "", FALSE)
TStrs       == Typ("Strs", "slice", "string", FALSE)

\* One field of each type, named as in test.SimpleMain and test.MyMain where
\* they have one, and the fields whose full flag names meet: Twin and Two,
\* Dot and the Child of Outer, Inner and the Inner of the "!embed" struct
\* Flat; Wrap holds an "!embed" struct one level down.
TypePool ==
    << Field("Eight", <<"E","i","g","h","t">>, TRUE, NoTag, NoTag, NoTag, TDuration, <<>>),
       Field("AIP", <<"A","I","P">>, TRUE, NoTag, NoTag, NoTag, TIP, <<>>),
       Field("AIPMask", <<"A","I","P","M","a","s","k">>, TRUE, <<"i","p","m","a","s","k">>, NoTag, NoTag, TIPMask, <<>>),
       Field("AIPNet", <<"A","I","P","N","e","t">>, TRUE, NoTag, NoTag, NoTag, TIPNet, <<>>),
       Field("AIPSlice", <<"A","I","P","S","l","i","c","e">>, TRUE, NoTag, NoTag, NoTag, TIPSlice, <<>>),
       Field("Eleven", <<"E","l","e","v","e","n">>, TRUE, NoTag, NoTag, NoTag, TMyDuration, <<>>),
       Field("Ten", <<"T","e","n">>, TRUE, NoTag, NoTag, NoTag, TTime, <<>>),
       Field("One", <<"O","n","e">>, TRUE, NoTag, NoTag, NoTag, TString, <<>>),
       Field("Four", <<"F","o","u","r">>, TRUE, NoTag, NoTag, NoTag, TBool, <<>>),
       Field("Two", <<"T","w","o">>, TRUE, NoTag, NoTag, NoTag, TInt, <<>>),
       Field("Three", <<"T","h","r","e","e">>, TRUE, NoTag, NoTag, NoTag, TInt64, <<>>),
       Field("Five", <<"F","i","v","e">>, TRUE, NoTag, NoTag, NoTag, TUint, <<>>),
       Field("Six", <<"S","i","x">>, TRUE, NoTag, NoTag, NoTag, TUint64, <<>>),
       Field("Seven", <<"S","e","v","e","n">>, TRUE, NoTag, NoTag, NoTag, TFloat64, <<>>),
       Field("Aint8", <<"A","i","n","t","8">>, TRUE, NoTag, NoTag, NoTag, TInt8, <<>>),
       Field("Aint16", <<"A","i","n","t","1","6">>, TRUE, NoTag, NoTag, NoTag, TInt16, <<>>),
       Field("Aint32", <<"A","i","n","t","3","2">>, TRUE, NoTag, NoTag, NoTag, TInt32, <<>>),
       Field("Auint8", <<"A","u","i","n","t","8">>, TRUE, NoTag, NoTag, NoTag, TUint8, <<>>),
       Field("Auint16", <<"A","u","i","n","t","1","6">>, TRUE, NoTag, NoTag, NoTag, TUint16, <<>>),
       Field("Auint32", <<"A","u","i","n","t","3","2">>, TRUE, NoTag, NoTag, NoTag, TUint32, <<>>),
       Field("Afloat32", <<"A","f","l","o","a","t","3","2">>, TRUE, NoTag, NoTag, NoTag, TFloat32, <<>>),
       Field("Nine", <<"N","i","n","e">>, TRUE, NoTag, NoTag, NoTag, TStringSlice, <<>>),
       Field("ABoolSlice", <<"A","B","o","o","l","S","l","i","c","e">>, TRUE, NoTag, NoTag, NoTag, TBoolSlice, <<>>),
       Field("AIntSlice", <<"A","I","n","t","S","l","i","c","e">>, TRUE, NoTag, NoTag, NoTag, TIntSlice, <<>>),
       Field("AUintSlice", <<"A","U","i","n","t","S","l","i","c","e">>, TRUE, NoTag, NoTag, NoTag, TUintSlice, <<>>),
       Field("Floats", <<"F","l","o","a","t","s">>, TRUE, NoTag, NoTag, NoTag, TFloatSlice, <<>>),
       Field("Named", <<"N","a","m","e","d">>, TRUE, NoTag, NoTag, NoTag, TMyInt, <<>>),
       Field("Strs", <<"S","t","r","s">>, TRUE, NoTag, NoTag, NoTag, TStrs, <<>>),
       Field("Chan", <<"C","h","a","n">>, TRUE, NoTag, NoTag, NoTag, TChan, <<>>),
       Field("Twin", <<"T","w","i","n">>, TRUE, <<"t","w","o">>, NoTag, NoTag, TBool, <<>>),
       Field("Outer", <<"O","u","t","e","r">>, TRUE, <<"o","u","t","e","r">>, NoTag, NoTag, TStruct,
             << Field("Outer.Child", <<"C","h","i","l","d">>, TRUE, NoTag, NoTag, NoTag, TBool, <<>>) >>),
       Field("Dot", <<"D","o","t">>, TRUE, <<"o","u","t","e","r",".","c","h","i","l","d">>, NoTag, NoTag, TBool, <<>>),
       Field("Flat", <<"F","l","a","t">>, TRUE, <<"!","e","m","b","e","d">>, NoTag, NoTag, TStruct,
             << Field("Flat.Inner", <<"I","n","n","e","r">>, TRUE, NoTag, NoTag, NoTag, TBool, <<>>) >>),
       Field("Wrap", <<"W","r","a","p">>, TRUE, <<"w","r","a","p">>, NoTag, NoTag, TStruct,
             << Field("Wrap.Mid", <<"M","i","d">>, TRUE, <<"!","e","m","b","e","d">>, NoTag, NoTag, TStruct,
                      << Field("Wrap.Mid.Deep", <<"D","e","e","p">>, TRUE, NoTag, NoTag, NoTag, TBool, <<>>) >>) >>),
       Field("Inner", <<"I","n","n","e","r">>, TRUE, NoTag, NoTag, NoTag, TBool, <<>>) >>

\* The values the fields above hold in the struct literal passed (durations
\* in seconds)
TypeValues ==
    ("Eight" :> 8) @@ ("AIP" :> "1.2.3.4") @@ ("AIPMask" :> "ffffff00")
    @@ ("AIPNet" :> "1.2.3.4/24") @@ ("AIPSlice" :> <<"1.2.3.4">>) @@ ("Eleven" :> 11)
    @@ ("Ten" :> "1970-01-01T00:00:00Z") @@ ("One" :> <<"o","n","e">>)
    @@ ("Four" :> TRUE) @@ ("Two" :> 2) @@ ("Three" :> 3) @@ ("Five" :> 5)
    @@ ("Six" :> 6) @@ ("Seven" :> 7) @@ ("Aint8" :> -8) @@ ("Aint16" :> -16)
    @@ ("Aint32" :> -32) @@ ("Auint8" :> 8) @@ ("Auint16" :> 16) @@ ("Auint32" :> 32)
    @@ ("Afloat32" :> -12) @@ ("Nine" :> << <<"9">>, <<"n","i","n","e">> >>)
    @@ ("ABoolSlice" :> <<TRUE, FALSE>>) @@ ("AIntSlice" :> <<9, -8, 7>>)
    @@ ("AUintSlice" :> <<1, 2>>) @@ ("Floats" :> <<1, 2>>) @@ ("Named" :> 4)
    @@ ("Strs" :> << <<"s">> >>) @@ ("Chan" :> "chan") @@ ("Twin" :> TRUE)
    @@ ("Outer.Child" :> TRUE) @@ ("Dot" :> TRUE) @@ ("Flat.Inner" :> TRUE)
    @@ ("Wrap.Mid.Deep" :> TRUE) @@ ("Inner" :> TRUE)

\* The structs of up to MaxFields different fields of TypePool, in the order
\* of the pool
TypePicks ==
    {p \in UNION {[1..n -> DOMAIN TypePool] : n \in 0..MaxFields} :
        \A i, j \in DOMAIN p : i < j => p[i] < p[j]}

\* The fields of a struct that hold a value (the fields of nested structs in
\* place of the struct-typed field)
RECURSIVE Leaves(_)
Leaves(fields) ==
    UNION {IF fields[i].typ = TStruct THEN Leaves(fields[i].sub) ELSE {fields[i].id}
            : i \in DOMAIN fields}

\* The fields of the struct type main is or points to, and the struct value
mainFields(sid, pick) ==
    CASE sid \in StructIds -> FieldsOf(sid)
      [] sid = "Picked" -> [i \in DOMAIN pick |-> Pool[pick[i]]]
      [] sid = "Typed" -> [i \in DOMAIN pick |-> TypePool[pick[i]]]
      [] OTHER -> <<>>

mainValue(sid, pick) ==
    CASE sid \in StructIds -> Literal(sid)
      [] sid = "Picked" -> [f \in Leaves(mainFields(sid, pick)) |-> PoolValues[f]]
      [] sid = "Typed" -> [f \in Leaves(mainFields(sid, pick)) |-> TypeValues[f]]
      [] OTHER -> <<>>

\* reflect.TypeOf(main): its Kind, and for a pointer the Kind of its Elem
Type(kind, elem) == [kind |-> kind, elem |-> elem]
PtrToStruct == Type("ptr", "struct")
\* What is passed for main that is not a pointer to a struct: a struct value,
\* a map, a pointer to a map, a pointer to an int
NotPtrToStruct ==
    {Type("struct", ""), Type("map", ""), Type("ptr", "map"), Type("ptr", "int")}

----------------------------------------------------------------------------
(* Flag collections *)

\* What the collection passed as Flagger also implements: FlagNamer (Flags()),
\* PFlagger (the ...VarP methods), and the methods Var and VarP that vvarp
\* looks up by name.
Flagger(namer, pflag, var, varp) ==
    [namer |-> namer, pflag |-> pflag, var |-> var, varp |-> varp]

FlaggerIds == {"flagSet", "compflag.FlagSet", "flag.FlagSet", "pflag.FlagSet"}

\* A collection that has the methods of Flagger and no other
FlaggerOnly == "Flagger"

FlaggerOf(fid) ==
    CASE fid = "flagSet"          -> Flagger(TRUE, FALSE, TRUE, FALSE)
      [] fid = "compflag.FlagSet" -> Flagger(TRUE, TRUE, TRUE, TRUE)
      [] fid = "flag.FlagSet"     -> Flagger(FALSE, FALSE, TRUE, FALSE)
      [] fid = "pflag.FlagSet"    -> Flagger(FALSE, TRUE, TRUE, TRUE)
      [] fid = "Flagger"          -> Flagger(FALSE, FALSE, FALSE, FALSE)

----------------------------------------------------------------------------
(* Binding: flagTracker.short and setFlags *)

IsLetter(c) == IndexOf(Lower, c) # 0 \/ IndexOf(Upper, c) # 0

\* The first letter of name that is not in claimed, as a string, or ""
FirstFree(name, claimed) ==
    LET free == {j \in DOMAIN name : IsLetter(name[j]) /\ name[j] \notin claimed}
    IN  IF free = {} THEN <<>>
        ELSE <<name[CHOOSE j \in free : \A k \in free : j <= k]>>

\* The mutant of short: a field without a short tag is given the first
\* letter of its flag name that is not claimed.
shortDerived(shorts, field) ==
    LET tag == field.tags.short
        letter == FirstFree(flagName(field), shorts)
    IN
    IF tag # NoTag
    THEN IF tag = <<>>
         THEN [letter |-> <<>>, err |-> NoErr, shorts |-> shorts]
         ELSE IF tag[1] \in {"U+00E9"}
         THEN [letter |-> <<>>, shorts |-> shorts,
               err |-> Err("is not a valid single ascii character.", <<tag>>)]
         ELSE IF tag[1] \in shorts
         THEN [letter |-> <<>>, shorts |-> shorts,
               err |-> Err("has already been used.", <<tag>>)]
         ELSE [letter |-> tag, err |-> NoErr, shorts |-> shorts \cup {tag[1]}]
    ELSE [letter |-> letter, err |-> NoErr,
          shorts |-> shorts \cup {letter[j] : j \in DOMAIN letter}]

\* The mutant of short: a letter is handed out whoever has claimed it.
shortUnclaimed(shorts, field) ==
    LET tag == field.tags.short IN
    IF tag # NoTag /\ tag # <<>>
    THEN [letter |-> tag, err |-> NoErr, shorts |-> shorts]
    ELSE [letter |-> <<>>, err |-> NoErr, shorts |-> shorts]

\* A character that is not ASCII: utf8.DecodeRuneInString gives width > 1.
NonAscii == {"U+00E9"}
Width(c) == IF c \in NonAscii THEN 2 ELSE 1

\* flagTracker.short: the shorthand of a field, the error, and the letters
\* claimed so far.
short(shorts, field) ==
    LET tag == field.tags.short IN
    IF tag # NoTag
    THEN IF tag = <<>>
         THEN [letter |-> <<>>, err |-> NoErr, shorts |-> shorts]
         ELSE IF Width(tag[1]) > 1
         THEN [letter |-> <<>>, shorts |-> shorts,
               err |-> Err("is not a valid single ascii character.", <<tag>>)]
         ELSE IF tag[1] \in shorts
         THEN [letter |-> <<>>, shorts |-> shorts,
               err |-> Err("has already been used.", <<tag>>)]
         ELSE [letter |-> tag, err |-> NoErr, shorts |-> shorts \cup {tag[1]}]
    ELSE [letter |-> <<>>, err |-> NoErr, shorts |-> shorts]

Embed == <<"!","e","m","b","e","d">>

ConcreteNames == {"time.Duration", "net.IPMask", "net.IPNet", "net.IP", "[]net.IP", "[]string"}
PflagOnlyKinds == {"float32", "int16", "int32", "uint16", "uint32", "uint8", "int8"}
BasicKinds == {"string", "bool", "int", "int64", "float64", "uint", "uint64"}
SliceElemKinds == {"string", "bool", "int", "uint"}

\* The Go type each typed binder's pointer assertion f.Addr().Interface().(*T)
\* needs; the assertion panics for a named type of the same kind.
AssertedName(kind, elem) ==
    IF kind # "slice" THEN kind
    ELSE CASE elem = "string" -> "[]string"
           [] elem = "bool"   -> "[]bool"
           [] elem = "int"    -> "[]int"
           [] elem = "uint"   -> "[]uint"
           [] OTHER           -> "[]"

\* The flagTracker method that binds a slice of the element kind.
SliceBinder(elem) ==
    CASE elem = "string" -> "stringSlice"
      [] elem = "bool"   -> "boolSlice"
      [] elem = "int"    -> "intSlice"
      [] elem = "uint"   -> "uintSlice"

\* What setFlags does for a field: a binder call, an error, a panic, or the
\* recursion into a struct
bindWith(op) == [kind |-> "bind", op |-> op, err |-> NoErr]
failWith(msg, at) == [kind |-> "error", op |-> "", err |-> Err(msg, <<at>>)]
panics == [kind |-> "panic", op |-> "", err |-> NoErr]
recurses == [kind |-> "recurse", op |-> "", err |-> NoErr]

\* The mutant of pflagOnly: the binder is called on any collection.
pflagOnlyUnchecked(fl, op, msg, full) == bindWith(op)

\* if !flags.pflag { return fmt.Errorf("cannot support ... at '%v' ...", flagName) }
\* before a binder that only PFlagger has
pflagOnly(fl, op, msg, full) ==
    IF ~fl.pflag THEN failWith(msg, full) ELSE bindWith(op)

\* vvarp: VarP or Var looked up by name on the collection; it panics when
\* the collection has neither.
vvarp(fl, op) == IF fl.varp \/ fl.var THEN bindWith(op) ELSE panics

\* p := f.Addr().Interface().(*T) before a typed binder: it panics for a
\* named type of the kind.
typed(typ, op) ==
    IF typ.name = AssertedName(typ.kind, typ.elem) THEN bindWith(op) ELSE panics

\* The mutant of typeSwitch: the basic kinds are looked at before encodable.
typeSwitchKindsFirst(typ) ==
    IF typ.name \in ConcreteNames THEN typ.name
    ELSE IF typ.enc /\ typ.kind \notin BasicKinds \cup PflagOnlyKinds \cup {"slice"}
    THEN "encodable"
    ELSE ""

\* The case of the type switch on f.Addr().Interface() that the field's
\* type takes: one of the concrete types, encodable, or none ("").
typeSwitch(typ) ==
    IF typ.name \in ConcreteNames THEN typ.name
    ELSE IF typ.enc THEN "encodable"
    ELSE ""

\* The switch on ft.Type.Kind(), for the types the type switch let through
kindSwitch(typ, fl, full, prefix) ==
    CASE typ.kind \in BasicKinds -> typed(typ, typ.kind)
      [] typ.kind = "slice" ->
           IF ~fl.pflag
           THEN failWith("cannot support slice field with stdlib flag pkg.", full)
           ELSE IF typ.elem \in SliceElemKinds THEN typed(typ, SliceBinder(typ.elem))
           ELSE failWith("encountered unsupported slice type/kind", prefix)
      [] typ.kind \in PflagOnlyKinds ->
           IF ~fl.pflag THEN failWith("cannot support field with stdlib flag pkg.", full)
           ELSE typed(typ, typ.kind)
      [] typ.kind = "struct" -> recurses
      [] OTHER -> failWith("encountered unsupported field type/kind", prefix)

\* The two switches of setFlags: what is done for a field of type typ whose
\* full flag name is full, under the prefix.
dispatch(typ, fl, full, prefix) ==
    LET c == typeSwitch(typ)
    IN  \* first check supported concrete types
        CASE c = "time.Duration" -> bindWith("duration")
          [] c = "net.IPMask" ->
               pflagOnly(fl, "ipMask", "cannot support net.IPMask field with stdlib flag pkg.", full)
          [] c = "net.IPNet" ->
               pflagOnly(fl, "ipNet", "cannot support net.IPNet field with stdlib flag pkg.", full)
          [] c = "net.IP" ->
               pflagOnly(fl, "ip", "cannot support net.IP field with stdlib flag pkg.", full)
          [] c = "[]net.IP" ->
               pflagOnly(fl, "ipSlice", "cannot support []net.IP field with stdlib flag pkg.", full)
          [] c = "[]string" -> vvarp(fl, "stringSliceValue")
          [] c = "encodable" -> vvarp(fl, "encodedValue")
          \* now check basic kinds
          [] OTHER -> kindSwitch(typ, fl, full, prefix)

\* The state of one Flags call: the flags defined so far (in definition
\* order), the shorthand letters claimed, the error returned, whether the
\* call panicked, and the struct value the flags point into.
Tracker(flags, shorts, err, panicked, mv) ==
    [flags |-> flags, shorts |-> shorts, err |-> err, panicked |-> panicked, main |-> mv]

\* newFlagTracker: 'h' is always claimed.
newFlagTracker(flags, mv) == Tracker(flags, {"h"}, NoErr, FALSE, mv)

\* The binders that hand the collection a Value over the field (Var, VarP)
\* and not a pointer with a default
ValueBinders == {"stringSliceValue", "encodedValue"}

\* The zero value of the type a binder binds
ZeroOf(op) ==
    CASE op = "string" -> <<>>
      [] op = "bool" -> FALSE
      [] op \in {"stringSlice", "boolSlice", "intSlice", "uintSlice", "ipSlice"} -> <<>>
      [] op \in {"ipMask", "ipNet", "ip"} -> ""
      [] OTHER -> 0

\* The mutant of BinderValue: the zero value of the type is the default.
BinderZero(op, cur) == ZeroOf(op)

\* The default setFlags passes to the binder of a field that holds cur:
\* f.String(), f.Bool(), int(f.Int()), f.Float(), *p, ...
BinderValue(op, cur) == cur

\* A registered flag: its name, the field its value cell aliases, the binder
\* that made it, its shorthand, its default, and for pflag's slice values
\* whether Set has been called on it.
Flag(name, fld, op, letter, def) ==
    [name |-> name, fld |-> fld, op |-> op, short |-> letter, def |-> def,
     changed |-> FALSE]

\* The binder call on the collection.  Both flag packages panic when the
\* name is already defined; pflag panics on a shorthand longer than one
\* character or already in use.
\* A ...Var/...VarP call also assigns the default to the variable bound.
define(tr, fl, flag) ==
    IF \/ \E i \in DOMAIN tr.flags : tr.flags[i].name = flag.name
       \/ fl.pflag /\ Len(flag.short) > 1
       \/ fl.pflag /\ flag.short # <<>>
            /\ \E i \in DOMAIN tr.flags : tr.flags[i].short = flag.short
    THEN [tr EXCEPT !.panicked = TRUE]
    ELSE [tr EXCEPT !.flags = Append(@,
                        IF fl.pflag THEN flag ELSE [flag EXCEPT !.short = <<>>]),
                    !.main[flag.fld] = IF flag.op \in ValueBinders THEN @ ELSE flag.def]

\* The mutant of prefixed: the name under which the field stands alone.
prefixedBare(prefix, fname) == fname

\* The flag name under the prefix of the enclosing struct fields:
\* flagName = prefix + "." + flagName when there is a prefix.
prefixed(prefix, fname) ==
    IF prefix # <<>> THEN prefix \o <<".">> \o fname ELSE fname

\* The mutant of abort: the flags bound so far are taken back.
abortRolledBack(tr, e) == [tr EXCEPT !.err = e, !.flags = <<>>]

\* return err: setFlags stops at the field, the flags bound stay bound
abort(tr, e) == [tr EXCEPT !.err = e]

\* The mutant of ignored: only unexported fields are passed over.
ignoredUnexported(ft, fname) == ~ft.exported

\* The fields setFlags passes over before anything is done for them: the
\* unexported ones (PkgPath != "") and those whose flag name is "-" or "".
ignored(ft, fname) == ~ft.exported \/ fname = <<"-">> \/ fname = <<>>

\* setFlags: the loop over the fields from index i on, with the recursion
\* into nested structs.
RECURSIVE setFlags(_, _, _, _, _)
setFlags(tr, fl, fields, i, prefix) ==
    IF i > Len(fields) \/ tr.err # NoErr \/ tr.panicked THEN tr
    ELSE
    LET ft == fields[i]
        fname == flagName(ft)
        sh == short(tr.shorts, ft)
        full == prefixed(prefix, fname)
        tr1 == [tr EXCEPT !.shorts = sh.shorts]
        d == dispatch(ft.typ, fl, full, prefix)
    IN  IF ignored(ft, fname) THEN setFlags(tr, fl, fields, i + 1, prefix)
        ELSE IF sh.err # NoErr
        THEN abort(tr, Wrap("getting shorthand", sh.err))
        ELSE CASE d.kind = "bind" ->
                    setFlags(define(tr1, fl, Flag(full, ft.id, d.op, sh.letter,
                                                  BinderValue(d.op, tr.main[ft.id]))),
                             fl, fields, i + 1, prefix)
               [] d.kind = "recurse" ->
                    setFlags(setFlags(tr1, fl, ft.sub, 1,
                                      IF full = Embed THEN prefix ELSE full),
                             fl, fields, i + 1, prefix)
               [] d.kind = "panic" -> [tr1 EXCEPT !.panicked = TRUE]
               [] OTHER -> abort(tr1, d.err)

\* The mutant of NotStruct: what is passed is not looked at.
NotStructUnchecked(typ) == NoErr

\* The check of main at the head of Flags (and of cobrafy.Command): nil for
\* a pointer to a struct.  typ.Kind() is printed in both errors.
NotStruct(typ) ==
    IF typ.kind # "ptr"
    THEN Err("value must be pointer to struct, but is %s", <<typ.kind>>)
    ELSE IF typ.elem # "struct"
    THEN Err("value must be pointer to struct, but is pointer to %s", <<typ.kind>>)
    ELSE NoErr

Checked(e, fl, fields, mv) ==
    IF e # NoErr THEN Tracker(<<>>, {}, e, FALSE, mv)
    ELSE setFlags(newFlagTracker(<<>>, mv), fl, fields, 1, <<>>)

\* Flags(flags, main), main of the type typ with the fields and the value mv
Flags(fl, typ, fields, mv) == Checked(NotStruct(typ), fl, fields, mv)

CommandChecked(e, typ, fields, mv) ==
    IF e # NoErr THEN Tracker(<<>>, {}, e, FALSE, mv)
    ELSE Flags(FlaggerOf("pflag.FlagSet"), typ, fields, mv)

\* cobrafy.Command(main): the same check, then Flags on the flags of the new
\* cobra.Command, a *pflag.FlagSet
Command(typ, fields, mv) == CommandChecked(NotStruct(typ), typ, fields, mv)

----------------------------------------------------------------------------
(* Setting flag values *)

\* The result of a Value.Set: its error, the new value of the field, and the
\* flag's changed mark
SetResult(e, v, c) == [err |-> e, v |-> v, changed |-> c]

\* The mutant of stringSliceValueSet: appends, as pflag's own slices do.
stringSliceValueAppend(cur, val) == SetResult(NoErr, cur \o Split(val, ","), FALSE)

\* stringSliceValue.Set: the slice is replaced by the split of val.
stringSliceValueSet(cur, val) == SetResult(NoErr, Split(val, ","), FALSE)

\* The Set of the scalar values of package flag and of pflag (intValue,
\* boolValue): the field is assigned the conversion's result also when the
\* conversion reports an error.
scalarSet(conv, val) ==
    SetResult(IF conv.ok THEN NoErr ELSE Err("invalid syntax", <<val>>), conv.v, FALSE)

\* stringValue.Set
stringSet(val) == SetResult(NoErr, val, FALSE)

\* The elements of a comma-separated list converted with strconv.Atoi
AtoiAll(ss) == [i \in DOMAIN ss |-> Atoi(ss[i])]

\* pflag's intSliceValue.Set on the converted elements: nothing is assigned
\* when one fails; the first Set replaces the slice, every later one appends.
intSliceSet(out, cur, changed, val) ==
    IF \E i \in DOMAIN out : ~out[i].ok
    THEN SetResult(Err("invalid syntax", <<val>>), cur, changed)
    ELSE SetResult(NoErr,
                   IF changed THEN cur \o [i \in DOMAIN out |-> out[i].v]
                   ELSE [i \in DOMAIN out |-> out[i].v],
                   TRUE)

\* encodedValue.Set on a *test.MyDuration: UnmarshalText assigns the parsed
\* duration, and nothing when the text does not parse.
encodedValueSet(cur, val) ==
    SetResult(IF ParseDuration(val).ok THEN NoErr ELSE Err("invalid duration", <<val>>),
              IF ParseDuration(val).ok THEN ParseDuration(val).v ELSE cur, FALSE)

\* encodedValue.String on a *test.MyDuration: MarshalText is d.String()
encodedValueString(cur) == DurationString(cur)

\* Value.Set of the flag on the string val, the field holding cur.
ValueSet(flag, cur, val) ==
    CASE flag.op = "string" -> stringSet(val)
      [] flag.op = "int" -> scalarSet(ParseInt(val), val)
      [] flag.op = "bool" -> scalarSet(ParseBool(val), val)
      [] flag.op = "stringSliceValue" -> stringSliceValueSet(cur, val)
      [] flag.op = "intSlice" -> intSliceSet(AtoiAll(Split(val, ",")), cur, flag.changed, val)
      [] flag.op = "duration" -> scalarSet(ParseDuration(val), val)
      [] flag.op = "encodedValue" -> encodedValueSet(cur, val)

\* Value.String of the flag, for the values whose text form the model has
ValueString(flag, cur) ==
    CASE flag.op \in {"encodedValue", "duration"} -> encodedValueString(cur)
      [] flag.op = "string" -> cur
      [] flag.op = "int" -> IF cur < 0 THEN <<"-">> \o Itoa(0 - cur) ELSE Itoa(cur)
      [] OTHER -> <<>>

\* The state the calls on the flag collection act on: the struct value, the
\* registered flags, the error of the call, the Set calls the call made and
\* the environment keys it looked up.
Acted(mv, flags, err, sets, lookups) ==
    [main |-> mv, flags |-> flags, err |-> err, sets |-> sets, lookups |-> lookups]

FlagIndex(flags, name) ==
    IF \E i \in DOMAIN flags : flags[i].name = name
    THEN CHOOSE i \in DOMAIN flags : flags[i].name = name
    ELSE 0

\* The flag's Value.Set writes through to the field the flag aliases.
Assigned(st, i, name, val, r) ==
    [st EXCEPT !.main[st.flags[i].fld] = r.v,
               !.flags[i].changed = r.changed \/ @,
               !.err = r.err,
               !.sets = Append(@, [name |-> name, val |-> val])]

SetAt(st, i, name, val) ==
    IF i = 0 THEN [st EXCEPT !.err = Err("no such flag", <<name>>)]
    ELSE Assigned(st, i, name, val, ValueSet(st.flags[i], st.main[st.flags[i].fld], val))

\* Flagger.Set(name, val)
Set(st, name, val) == SetAt(st, FlagIndex(st.flags, name), name, val)

\* The error a call returns around the error of the step it made
Failed(st, step) == [st EXCEPT !.err = Wrap(step, st.err)]

\* The loop of Parse over the flag occurrences "--name=val" of args, in the
\* order given: each is Set in turn, and the first unknown flag or failing
\* Set ends the parse with its error.
RECURSIVE ParseTokens(_, _)
ParseRest(st1, rest) ==
    IF st1.err # NoErr THEN Failed(st1, "invalid value for flag") ELSE ParseTokens(st1, rest)

ParseTokens(st, args) ==
    IF args = <<>> THEN st
    ELSE IF FlagIndex(st.flags, args[1].name) = 0
    THEN [st EXCEPT !.err = Err("flag provided but not defined", <<args[1].name>>)]
    ELSE ParseRest(Set(st, args[1].name, args[1].val), Tail(args))

\* The mutant of Parse: every flag is first reset to its default.
ParseResetting(st, args) ==
    ParseTokens([st EXCEPT !.main = [f \in DOMAIN st.main |->
                    IF \E i \in DOMAIN st.flags : st.flags[i].fld = f
                    THEN st.flags[CHOOSE i \in DOMAIN st.flags : st.flags[i].fld = f].def
                    ELSE st.main[f]]],
                args)

\* Flagger.Parse(args): only the flags named in args are Set.
Parse(st, args) == ParseTokens(st, args)

\* FlagNamer.Flags(): VisitAll visits the flags in lexicographical order.
Least(S) == CHOOSE x \in S : \A y \in S \ {x} : StrLess(x, y)

RECURSIVE SortNames(_)
SortNames(S) == IF S = {} THEN <<>> ELSE <<Least(S)>> \o SortNames(S \ {Least(S)})

FlagNames(flags) == SortNames({flags[i].name : i \in DOMAIN flags})

\* The key loadEnv looks up for a flag: envNorm(prefix + name)
envKey(prefix, name) == envNorm(prefix \o name)

Looked(st, name, envString) ==
    [st EXCEPT !.lookups = Append(@, [name |-> name, key |-> envString])]

\* The loop of loadEnv over the names from index i on: the lookup of a name,
\* the Set when its variable is set, and the rest of the loop.
RECURSIVE loadEnvLoop(_, _, _, _, _)

\* fmt.Errorf("couldn't set %s to %s from env %s: %v", name, val, envString, err)
CouldntSet(st, name, val, envString) ==
    [st EXCEPT !.err = [steps |-> <<"couldn't set from env">> \o st.err.steps,
                        msg |-> st.err.msg,
                        args |-> <<name, val, envString>> \o st.err.args]]

\* The mutant of loadEnvRest: after a Set that failed the loop goes on, and
\* the error is returned at its end.
loadEnvRestGoesOn(st1, names, i, prefix, environ) ==
    IF st1.err # NoErr
    THEN [loadEnvLoop([st1 EXCEPT !.err = NoErr], names, i + 1, prefix, environ)
             EXCEPT !.err = CouldntSet(st1, names[i], environ[envKey(prefix, names[i])],
                                       envKey(prefix, names[i])).err]
    ELSE loadEnvLoop(st1, names, i + 1, prefix, environ)

loadEnvRest(st1, names, i, prefix, environ) ==
    IF st1.err # NoErr
    THEN CouldntSet(st1, names[i], environ[envKey(prefix, names[i])],
                    envKey(prefix, names[i]))
    ELSE loadEnvLoop(st1, names, i + 1, prefix, environ)

loadEnvName(st, names, i, prefix, environ, envString) ==
    IF envString \in DOMAIN environ
    THEN loadEnvRest(Set(Looked(st, names[i], envString), names[i], environ[envString]),
                     names, i, prefix, environ)
    ELSE loadEnvLoop(Looked(st, names[i], envString), names, i + 1, prefix, environ)

loadEnvLoop(st, names, i, prefix, environ) ==
    IF i > Len(names) THEN st
    ELSE loadEnvName(st, names, i, prefix, environ, envKey(prefix, names[i]))

\* The mutant of loadEnv: the flags are enumerated whatever the collection.
loadEnvUnchecked(st, fl, prefix, environ) ==
    loadEnvLoop(st, FlagNames(st.flags), 1, prefix, environ)

\* loadEnv(flagger, prefix)
loadEnv(st, fl, prefix, environ) ==
    IF fl.namer
    THEN loadEnvLoop(st, FlagNames(st.flags), 1, prefix, environ)
    ELSE [st EXCEPT !.err = Err("flagger does not implement FlagNamer", <<>>)]

----------------------------------------------------------------------------
(* The inputs of the calls *)

\* The most environment variables set, and the most flag occurrences in args.
MaxEnvVars == 2
MaxArgs == 2
\* The most calls the test-style caller makes after Flags.
MaxTestCalls == 2

Prefixes == { <<"C","_">>, <<"c","-">> }
EnvVals == { <<"0">>, <<"6",",","0">> }
ArgVals == { <<"1">>, <<"5",",","1">> }
Unknown == <<"n","o">>

\* The flag names a struct binds on a collection that binds every type
AllNames(sid) ==
    LET tr == Flags(FlaggerOf("compflag.FlagSet"), PtrToStruct, FieldsOf(sid), Literal(sid))
    IN  {tr.flags[i].name : i \in DOMAIN tr.flags}

\* The environments: at most MaxEnvVars variables, named as loadEnv names them
EnvKeys(sid) == {envNorm(<<"C","_">> \o n) : n \in AllNames(sid)}
Environs(sid) ==
    {e \in UNION {[K -> EnvVals] : K \in SUBSET EnvKeys(sid)} :
        Cardinality(DOMAIN e) <= MaxEnvVars}

\* The environment in which every variable loadEnv could read is set
FullEnviron(sid) == [k \in EnvKeys(sid) |-> <<"3">>]

\* The argument lists: at most MaxArgs occurrences of registered flags and of
\* a flag that is not defined
ArgTokens(flags) ==
    {[name |-> n, val |-> v] :
        n \in {flags[i].name : i \in DOMAIN flags} \cup {Unknown}, v \in ArgVals}
ArgListsUpTo(flags, max) == UNION {[1..n -> ArgTokens(flags)] : n \in 0..max}
ArgLists(flags) == ArgListsUpTo(flags, MaxArgs)

\* The strings a flag is Set to by the caller that binds one field and sets it
SetVals ==
    { <<"1","1","m","3","0","s">>, <<"9","0","s">>, <<"1","h">>, <<"0">>,
      <<"1","1">>, <<"m">>, <<>> }

\* The fields of TypePool that caller binds: Eight, Eleven, One and Two
SetPicks == { <<1>>, <<6>>, <<8>>, <<10>> }

\* What configElsewhere (and the test's direct assignments) writes to main
Writes(sid) ==
    CASE sid = "SimpleMain" -> ("Two" :> 4) @@ ("Nine" :> << <<"c">> >>)
      [] sid = "MyMain"     -> ("AIntSlice" :> <<4>>) @@ ("SubThing.SubBool" :> FALSE)
      [] sid = "NonRunner"  -> ("A" :> 4)

\* configElsewhere: nil, a function that writes and returns nil, a function
\* that writes and returns an error
ConfigIds == {"nil", "writes", "fails"}

Written(sid, mv) ==
    [f \in DOMAIN mv |-> IF f \in DOMAIN Writes(sid) THEN Writes(sid)[f] ELSE mv[f]]

\* The longest field name made of the letters below.
MaxName == 4

NameLetters == {"a", "s", "R", "U", "1"}

\* The inputs of TestDowncaseAndDash
TestNames ==
    { <<"a">>, <<"A">>, <<"a","B">>,
      <<"B","a">>, <<"H","e","l","l","o","F","r","i","e","n","d">>, <<"h","e","l","l","o","F","r","i","e","n","d">>,
      <<"A","A","A">>, <<"m","y","U","R","L">>, <<"M","y","U","R","L">>,
      <<"U","R","L","F","i","n","d","e","r">>, <<"A","a","U","R","L","F","i","n","d","e","r">>, <<"a","U","R","L","F","i","n","d","e","r">>,
      <<"A","U","R","L","F","i","n","d","e","r">>, <<"M","y","U","R","L","s">>, <<"K","i","s","s","A","T","o","a","d">>,
      <<"I","A","m","A","T","o","a","d">> }

\* The field names downcaseAndDash is applied to
Names == TestNames \cup UNION {[1..n -> NameLetters] : n \in 0..MaxName}

----------------------------------------------------------------------------
(* State *)

VARIABLES
    op,       \* the entry point called: "LoadArgsEnv", "RunArgs", "Flags",
              \* "Command", or "Test" for Flags and the calls a test makes after it
    mtype,    \* the type of what is passed as main
    sid,      \* the struct type main is or points to ("none" when it is no struct)
    pick,     \* the fields of the struct when it is put together from the pool
    input,    \* the string downcaseAndDash is called on
    output,   \* the string it returned
    fid,      \* the flag collection passed as flags
    prefix,   \* envPrefix
    environ,  \* the process environment: key -> value
    main,     \* the struct value: field -> value
    main0,    \* main when the entry point was called
    flags,    \* the flags registered on the collection
    args,     \* the args passed (<<>> before the first Parse)
    config,   \* the configElsewhere passed ("unset" before its step)
    pc,       \* the step the entry point is at, "returned" or "panicked"
    err,      \* the error returned
    calls,    \* the calls made so far, in order
    sets,     \* the Set calls of the last call
    lookups,  \* the environment lookups of the last call
    atConfig, \* main as configElsewhere received it
    runs      \* how often main.Run() was called

vars == <<op, input, output, mtype, sid, pick, fid, prefix, environ, main, main0, flags, args, config,
          pc, err, calls, sets, lookups, atConfig, runs>>

inputs == <<op, input, mtype, sid, pick, fid, prefix, environ, main0>>

\* A pointer to one of the structs of the tests
InitStruct ==
    /\ mtype = PtrToStruct /\ sid \in StructIds /\ pick = <<>>
    /\ fid \in FlaggerIds
    /\ \/ /\ op = "LoadArgsEnv"
          /\ prefix \in Prefixes
          /\ environ \in Environs(sid)
       \/ /\ op = "RunArgs"
          /\ prefix = <<>>
          /\ environ = FullEnviron(sid)
       \/ /\ op = "Test"
          /\ prefix = <<"C","_">>
          /\ environ \in Environs(sid)
       \/ /\ op = "Command" /\ fid = "pflag.FlagSet"
          /\ prefix = <<>>
          /\ environ = <<>>

\* A pointer to a struct of fields of the pool, for the calls that only bind
InitPicked ==
    /\ mtype = PtrToStruct /\ sid = "Picked" /\ pick \in Picks
    /\ \/ op = "Flags" /\ fid \in FlaggerIds
       \/ op = "Command" /\ fid = "pflag.FlagSet"
    /\ prefix = <<>>
    /\ environ = <<>>

\* A pointer to a struct of fields of TypePool, for the calls that only bind
InitTyped ==
    /\ mtype = PtrToStruct /\ sid = "Typed" /\ pick \in TypePicks
    /\ \/ op = "Flags" /\ fid \in FlaggerIds \cup {FlaggerOnly}
       \/ op = "Command" /\ fid = "pflag.FlagSet"
       \/ op = "Set" /\ fid \in {"flagSet", "pflag.FlagSet"} /\ pick \in SetPicks
    /\ prefix = <<>>
    /\ environ = <<>>

\* Something that is not a pointer to a struct
InitNotStruct ==
    /\ mtype \in NotPtrToStruct
    /\ sid = IF mtype.kind = "struct" THEN "MyMain" ELSE "none"
    /\ pick = <<>>
    /\ \/ op \in {"Flags", "RunArgs", "LoadArgsEnv"} /\ fid \in FlaggerIds
       \/ op = "Command" /\ fid = "pflag.FlagSet"
    /\ prefix = <<"C","_">>
    /\ environ = <<>>

\* A field name, for the call of downcaseAndDash alone
InitName ==
    /\ op = "downcaseAndDash" /\ input \in Names
    /\ mtype = PtrToStruct /\ sid = "none" /\ pick = <<>>
    /\ fid = "flagSet"
    /\ prefix = <<>>
    /\ environ = <<>>

Init ==
    /\ \/ (InitStruct \/ InitPicked \/ InitTyped \/ InitNotStruct) /\ input = <<>>
       \/ InitName
    /\ output = <<>>
    /\ main = mainValue(sid, pick)
    /\ main0 = mainValue(sid, pick)
    /\ flags = <<>>
    /\ args = <<>>
    /\ config = "unset"
    /\ pc = IF op = "downcaseAndDash" THEN "call" ELSE "Flags"
    /\ err = NoErr
    /\ calls = <<>>
    /\ sets = <<>>
    /\ lookups = <<>>
    /\ atConfig = mainValue(sid, pick)
    /\ runs = 0

Here == Acted(main, flags, NoErr, <<>>, <<>>)

\* The effect of a call on the struct and the collection, and its log
Effect(st, call) ==
    /\ main' = st.main
    /\ flags' = st.flags
    /\ sets' = st.sets
    /\ lookups' = st.lookups
    /\ calls' = Append(calls, call)

\* The mutant of Return: the error is returned as it is.
ReturnUnwrapped(e, step, next) ==
    IF e # NoErr
    THEN err' = e /\ pc' = "returned"
    ELSE err' = NoErr /\ pc' = next

\* if err != nil { return fmt.Errorf(step + ": %v", err) }, else go on at next
Return(e, step, next) ==
    IF e # NoErr
    THEN err' = Wrap(step, e) /\ pc' = "returned"
    ELSE err' = NoErr /\ pc' = next

\* A step of an entry point: the call, and the return when it failed
Step(st, call, step, next) == Effect(st, call) /\ Return(st.err, step, next)

\* A call the test makes itself: the error is the call's own
Called(st, call) == Effect(st, call) /\ err' = st.err

----------------------------------------------------------------------------
(* Flags, as the first step of every entry point *)

FlagsDone(tr) ==
    /\ Effect(Acted(tr.main, tr.flags, tr.err, <<>>, <<>>), "Flags")
    /\ IF tr.panicked THEN err' = NoErr /\ pc' = "panicked"
       ELSE IF op = "Test"
       THEN err' = tr.err /\ pc' = IF tr.err = NoErr THEN "calls" ELSE "returned"
       ELSE IF op \in {"Flags", "Command"}
       THEN err' = tr.err /\ pc' = "returned"
       ELSE IF op = "Set"
       THEN err' = tr.err /\ pc' = IF tr.err = NoErr THEN "Set" ELSE "returned"
       ELSE Return(tr.err, "calling Flags", IF op = "RunArgs" THEN "Parse" ELSE "loadEnv")

FlagsStep ==
    /\ op # "Command" /\ pc = "Flags"
    /\ FlagsDone(Flags(FlaggerOf(fid), mtype, mainFields(sid, pick), main))
    /\ UNCHANGED <<inputs, output, args, config, atConfig, runs>>

\* cobrafy.Command: the error of the check or of Flags is returned as it is
CommandStep ==
    /\ op = "Command" /\ pc = "Flags"
    /\ FlagsDone(Command(mtype, mainFields(sid, pick), main))
    /\ UNCHANGED <<inputs, output, args, config, atConfig, runs>>

\* output := downcaseAndDash(tst.input)
DowncaseAndDash ==
    /\ op = "downcaseAndDash" /\ pc = "call"
    /\ output' = downcaseAndDash(input)
    /\ pc' = "returned"
    /\ UNCHANGED <<inputs, main, flags, args, config, err, calls, sets, lookups,
                   atConfig, runs>>

\* flags.Set(name, val) on a flag of the struct, then the flag's String()
SetStep ==
    /\ op = "Set" /\ pc = "Set"
    /\ \E i \in DOMAIN flags, val \in SetVals :
         /\ Called(Set(Here, flags[i].name, val), "Set")
         /\ output' = ValueString(flags[i], main'[flags[i].fld])
    /\ pc' = "returned"
    /\ UNCHANGED <<inputs, args, config, atConfig, runs>>

----------------------------------------------------------------------------
(* LoadArgsEnv *)

LoadArgsEnv_loadEnv ==
    /\ op = "LoadArgsEnv" /\ pc = "loadEnv"
    /\ Step(loadEnv(Here, FlaggerOf(fid), prefix, environ),
            "loadEnv", "loading environment", "Parse")
    /\ UNCHANGED <<inputs, output, args, config, atConfig, runs>>

LoadArgsEnv_Parse ==
    /\ op = "LoadArgsEnv" /\ pc = "Parse"
    /\ \E a \in ArgLists(flags) :
         /\ args' = a
         /\ Step(Parse(Here, a), "Parse", "parsing command line args", "configElsewhere")
    /\ UNCHANGED <<inputs, output, config, atConfig, runs>>

\* configElsewhere(main), for a configElsewhere that is not nil
External(c) ==
    Acted(Written(sid, main), flags,
          IF c = "fails" THEN Err("config error", <<>>) ELSE NoErr, <<>>, <<>>)

LoadArgsEnv_configElsewhere ==
    /\ op = "LoadArgsEnv" /\ pc = "configElsewhere"
    /\ \E c \in ConfigIds :
         /\ config' = c
         /\ IF c = "nil"
            THEN /\ pc' = "reloadEnv"
                 /\ UNCHANGED <<main, flags, sets, lookups, calls, err, atConfig>>
            ELSE /\ atConfig' = main
                 /\ Step(External(c), "configElsewhere",
                         "executing external parsing func", "reloadEnv")
    /\ UNCHANGED <<inputs, output, args, runs>>

LoadArgsEnv_reloadEnv ==
    /\ op = "LoadArgsEnv" /\ pc = "reloadEnv"
    /\ Step(loadEnv(Here, FlaggerOf(fid), prefix, environ),
            "loadEnv", "reloading environment", "reparse")
    /\ UNCHANGED <<inputs, output, args, config, atConfig, runs>>

\* The mutant of LoadArgsEnv_reparse: args are not parsed again.
LoadArgsEnv_noReparse ==
    /\ op = "LoadArgsEnv" /\ pc = "reparse"
    /\ pc' = "returned"
    /\ UNCHANGED <<inputs, output, main, flags, args, config, err, calls, sets, lookups, atConfig, runs>>

LoadArgsEnv_reparse ==
    /\ op = "LoadArgsEnv" /\ pc = "reparse"
    /\ Step(Parse(Here, args), "Parse", "reparsing command line args", "returned")
    /\ UNCHANGED <<inputs, output, args, config, atConfig, runs>>

----------------------------------------------------------------------------
(* RunArgs *)

RunArgs_Parse ==
    /\ op = "RunArgs" /\ pc = "Parse"
    /\ \E a \in ArgLists(flags) :
         /\ args' = a
         /\ Step(Parse(Here, a), "Parse", "parsing flags", "Run")
    /\ UNCHANGED <<inputs, output, config, atConfig, runs>>

\* main.Run() returns nil or an error of its own
RunResults == {NoErr, Err("mymain error", <<>>)}

NotRunner ==
    Err("called 'Run' with something which doesn't implement the 'Run() error' method.", <<>>)

\* The mutant of RunArgs_Run: the result of Run is wrapped like the others.
RunArgs_RunWrapped ==
    /\ op = "RunArgs" /\ pc = "Run"
    /\ IF ImplementsRunner(sid)
       THEN /\ \E r \in RunResults : err' = IF r = NoErr THEN r ELSE Wrap("running", r)
            /\ runs' = runs + 1
            /\ calls' = Append(calls, "Run")
       ELSE /\ err' = NotRunner
            /\ UNCHANGED <<runs, calls>>
    /\ pc' = "returned"
    /\ UNCHANGED <<inputs, output, main, flags, args, config, sets, lookups, atConfig>>

RunArgs_Run ==
    /\ op = "RunArgs" /\ pc = "Run"
    /\ IF ImplementsRunner(sid)
       THEN /\ \E r \in RunResults : err' = r
            /\ runs' = runs + 1
            /\ calls' = Append(calls, "Run")
       ELSE /\ err' = NotRunner
            /\ UNCHANGED <<runs, calls>>
    /\ pc' = "returned"
    /\ UNCHANGED <<inputs, output, main, flags, args, config, sets, lookups, atConfig>>

----------------------------------------------------------------------------
(* The caller of TestLoadEnv: after Flags, loadEnv, Parse and assignments *)
(* to the struct's fields in any order                                      *)

Test_loadEnv ==
    /\ op = "Test" /\ pc = "calls" /\ Len(calls) < 1 + MaxTestCalls
    /\ Called(loadEnv(Here, FlaggerOf(fid), prefix, environ), "loadEnv")
    /\ UNCHANGED <<inputs, output, args, config, pc, atConfig, runs>>

Test_Parse ==
    /\ op = "Test" /\ pc = "calls" /\ Len(calls) < 1 + MaxTestCalls
    /\ \E a \in ArgListsUpTo(flags, 1) :
         /\ args' = a
         /\ Called(Parse(Here, a), "Parse")
    /\ UNCHANGED <<inputs, output, config, pc, atConfig, runs>>

Test_assign ==
    /\ op = "Test" /\ pc = "calls" /\ Len(calls) < 1 + MaxTestCalls
    /\ Called(Acted(Written(sid, main), flags, NoErr, <<>>, <<>>), "assign")
    /\ UNCHANGED <<inputs, output, args, config, pc, atConfig, runs>>

Next ==
    \/ FlagsStep
    \/ CommandStep
    \/ DowncaseAndDash
    \/ SetStep
    \/ LoadArgsEnv_loadEnv
    \/ LoadArgsEnv_Parse
    \/ LoadArgsEnv_configElsewhere
    \/ LoadArgsEnv_reloadEnv
    \/ LoadArgsEnv_reparse
    \/ RunArgs_Parse
    \/ RunArgs_Run
    \/ Test_loadEnv
    \/ Test_Parse
    \/ Test_assign

Spec == Init /\ [][Next]_vars

-----------------------------------------------------------------------------
(* Properties *)

Returned == op = "LoadArgsEnv" /\ pc = "returned" /\ err = NoErr

LastCall == IF calls = <<>> THEN "" ELSE calls[Len(calls)]

Named(name) == \E j \in DOMAIN args : args[j].name = name

Occurrences(name) == {j \in DOMAIN args : args[j].name = name}

LastOf(S) == CHOOSE j \in S : \A k \in S : k <= j

EnvSet(name) == envKey(prefix, name) \in DOMAIN environ

ConfigWrote(f) == config \in {"writes", "fails"} /\ f \in DOMAIN Writes(sid)

\* The value a string denotes for a flag of a scalar type
Denoted(flag, val) ==
    CASE flag.op = "string" -> val
      [] flag.op = "int" -> ParseInt(val).v
      [] flag.op = "bool" -> ParseBool(val).v

Precedence(flag) ==
    IF Named(flag.name) THEN Denoted(flag, args[LastOf(Occurrences(flag.name))].val)
    ELSE IF EnvSet(flag.name) THEN Denoted(flag, environ[envKey(prefix, flag.name)])
    ELSE IF ConfigWrote(flag.fld) THEN Writes(sid)[flag.fld]
    ELSE main0[flag.fld]

\* C1: after a LoadArgsEnv that returned nil, every bound scalar field holds
\* the value given in args if its flag is named there, else the value of its
\* environment variable if that is set, else what configElsewhere wrote to
\* it, else the value it had before the call.
C1_Precedence ==
    Returned =>
        \A i \in DOMAIN flags :
            flags[i].op \in {"string", "int", "bool"}
                => main[flags[i].fld] = Precedence(flags[i])

C1_Witness ==
    /\ Returned /\ sid = "SimpleMain" /\ config = "writes"
    /\ Named(<<"t", "w", "o">>) /\ EnvSet(<<"t", "w", "o">>)
    /\ ~Named(<<"o", "n", "e">>) /\ EnvSet(<<"o", "n", "e">>)
    /\ main.Two = 1 /\ main.One = environ[envKey(prefix, <<"o", "n", "e">>)]

IsPrefix(a, b) == Len(a) <= Len(b) /\ \A i \in DOMAIN a : a[i] = b[i]

\* The steps of LoadArgsEnv in their order, configElsewhere being one of
\* them when it is not nil
StepOrder ==
    <<"Flags", "loadEnv", "Parse">>
        \o (IF config \in {"writes", "fails"} THEN <<"configElsewhere">> ELSE <<>>)
        \o <<"loadEnv", "Parse">>

\* The prefix that identifies the step LoadArgsEnv made last
StepPrefix ==
    CASE Len(calls) = 1 -> "calling Flags"
      [] Len(calls) = 2 -> "loading environment"
      [] Len(calls) = 3 -> "parsing command line args"
      [] Len(calls) > 3 /\ LastCall = "configElsewhere" -> "executing external parsing func"
      [] Len(calls) > 3 /\ LastCall = "loadEnv" -> "reloading environment"
      [] Len(calls) > 3 /\ LastCall = "Parse" -> "reparsing command line args"
      [] OTHER -> ""

C2_Order ==
    op = "LoadArgsEnv" /\ pc # "panicked" =>
        /\ IsPrefix(calls, StepOrder)
        /\ pc = "returned" /\ err = NoErr => calls = StepOrder
        /\ err # NoErr =>
            /\ pc = "returned"
            /\ err.steps # <<>>
            /\ err.steps[1] = StepPrefix

\* The step that fails leaves the flags registered and nothing is done
\* after it.
C2_Kept ==
    op = "LoadArgsEnv" =>
        /\ err # NoErr => UNCHANGED vars
        /\ calls # <<>> /\ calls' # calls =>
            \A i \in DOMAIN flags :
                /\ i \in DOMAIN flags'
                /\ flags'[i].name = flags[i].name
                /\ flags'[i].fld = flags[i].fld

\* C2: LoadArgsEnv makes its steps in the order Flags, loadEnv, Parse,
\* configElsewhere, loadEnv, Parse; a step that returns an error ends the call
\* with an error that starts with the prefix of that step, no step follows
\* it, and what the earlier steps did to the struct and the collection stays.
C2_FixedOrder == []C2_Order /\ [][C2_Kept]_vars

C2_Witness ==
    /\ op = "LoadArgsEnv" /\ pc = "returned"
    /\ calls = <<"Flags", "loadEnv", "Parse", "configElsewhere">>
    /\ err # NoErr /\ err.steps = <<"executing external parsing func">>
    /\ atConfig # main0 /\ main = Written(sid, atConfig)

IntsOf(parts) == [k \in DOMAIN parts |-> Atoi(parts[k]).v]

\* The list a string denotes for a flag of a slice type
Listed(flag, val) ==
    IF flag.op = "intSlice" THEN IntsOf(Split(val, ",")) ELSE Split(val, ",")

\* What args give a flag: the last occurrence for a scalar and for a list of
\* strings, the occurrences one after the other for the lists that a single
\* parse accumulates
RECURSIVE Accumulated(_, _)
Accumulated(flag, j) ==
    IF j > Len(args) THEN <<>>
    ELSE (IF args[j].name = flag.name THEN Listed(flag, args[j].val) ELSE <<>>)
            \o Accumulated(flag, j + 1)

Given(flag, val) ==
    CASE flag.op \in {"string", "int", "bool"} -> Denoted(flag, val)
      [] flag.op = "stringSliceValue" -> Listed(flag, val)
      [] flag.op = "intSlice" -> Accumulated(flag, 1)

ArgsOverEnvOverDefault(flag) ==
    IF Named(flag.name) THEN Given(flag, args[LastOf(Occurrences(flag.name))].val)
    ELSE IF EnvSet(flag.name)
    THEN IF flag.op \in {"string", "int", "bool"}
         THEN Denoted(flag, environ[envKey(prefix, flag.name)])
         ELSE Listed(flag, environ[envKey(prefix, flag.name)])
    ELSE main0[flag.fld]

\* configElsewhere, when not nil, is the fourth call and is made once; when
\* nil it is no call at all and the reload and the re-parse follow.
C3_CalledOnce ==
    op = "LoadArgsEnv" =>
        /\ Cardinality({i \in DOMAIN calls : calls[i] = "configElsewhere"})
             = IF config \in {"writes", "fails"} THEN 1 ELSE 0
        /\ \A i \in DOMAIN calls :
             calls[i] = "configElsewhere"
                => i = 4 /\ SubSeq(calls, 1, 3) = <<"Flags", "loadEnv", "Parse">>
        /\ config = "nil" => pc \in {"reloadEnv", "reparse", "returned"}
        /\ config = "nil" /\ pc = "returned" /\ err = NoErr
             => calls = <<"Flags", "loadEnv", "Parse", "loadEnv", "Parse">>
        /\ config = "unset" => pc \notin {"reloadEnv", "reparse"}

C3_HeldAtCall ==
    op = "LoadArgsEnv" /\ config \in {"writes", "fails"} =>
        \A i \in DOMAIN flags :
            atConfig[flags[i].fld] = ArgsOverEnvOverDefault(flags[i])

\* C3: a configElsewhere that is not nil is called once, after the first
\* environment load and the first parse succeeded, and at the call every
\* bound field holds its args value, else its environment value, else its
\* default; a nil configElsewhere is skipped and the reload and re-parse run.
C3_ConfigAfterArgs == C3_CalledOnce /\ C3_HeldAtCall

\* C4: a loadEnv call changes only fields whose flag has its environment
\* variable set, a Parse call changes only fields whose flag is named in
\* args, and a direct write changes only the fields written; every other
\* field keeps its value over the call.
C4_FrameStep ==
    \A f \in DOMAIN main :
        main'[f] # main[f] =>
            /\ calls' = Append(calls, "loadEnv") =>
                 \E i \in DOMAIN flags : flags[i].fld = f /\ EnvSet(flags[i].name)
            /\ calls' = Append(calls, "Parse") =>
                 \E i \in DOMAIN flags :
                    /\ flags[i].fld = f
                    /\ \E j \in DOMAIN args' : args'[j].name = flags[i].name
            /\ calls' = Append(calls, "configElsewhere") \/ calls' = Append(calls, "assign")
                 => f \in DOMAIN Writes(sid)
            /\ calls' # calls

C4_Frame == [][C4_FrameStep]_vars

\* Two was set by args, by the environment reload and by args again, and One,
\* which neither names, is as it was.
C4_Witness ==
    /\ op = "Test" /\ sid = "SimpleMain" /\ pc = "calls"
    /\ calls = <<"Flags", "loadEnv", "Parse">>
    /\ EnvSet(<<"t", "w", "o">>) /\ ~EnvSet(<<"o", "n", "e">>)
    /\ Named(<<"t", "w", "o">>)
    /\ main.Two = 1 /\ main.One = main0.One /\ main.Nine = main0.Nine

\* C5: loadEnv looks up, for every registered flag name, the key made of the
\* prefix as it was given followed by the name in upper case with each '-'
\* and '.' replaced by '_'.
C5_EnvKey ==
    /\ \A i \in DOMAIN lookups :
         lookups[i].key = prefix \o envNorm(lookups[i].name)
    /\ LastCall = "loadEnv" /\ err = NoErr =>
         {lookups[i].name : i \in DOMAIN lookups}
            = {flags[i].name : i \in DOMAIN flags}

\* C6: loadEnv on a collection that is not a FlagNamer returns an error and
\* calls Set on no flag; in LoadArgsEnv that error is the "loading
\* environment" failure, the flags being bound by then and neither args
\* parsed nor configElsewhere called.
C6_NotFlagNamer ==
    LastCall = "loadEnv" /\ ~FlaggerOf(fid).namer =>
        /\ err # NoErr
        /\ sets = <<>> /\ lookups = <<>>
        /\ op = "LoadArgsEnv" =>
            /\ pc = "returned"
            /\ err.steps = <<"loading environment">>
            /\ calls = <<"Flags", "loadEnv">>
            /\ flags # <<>>
            /\ args = <<>> /\ config = "unset" /\ main = main0

C6_Witness ==
    /\ op = "LoadArgsEnv" /\ fid = "pflag.FlagSet" /\ sid = "MyMain"
    /\ LastCall = "loadEnv" /\ pc = "returned"
    /\ Len(flags) = 3 /\ environ # <<>>
    /\ err.steps = <<"loading environment">>

C7_Twice ==
    /\ calls # <<>> /\ calls[Len(calls)] = "loadEnv"
    /\ calls' = Append(calls, "loadEnv")

\* C7: with the environment unchanged, a loadEnv call that follows a loadEnv
\* call leaves every bound field as the first call left it, whatever the
\* field's type and the collection.
C7_Idempotent == [][C7_Twice => main' = main]_vars

SetsOf(name) == {j \in DOMAIN sets : sets[j].name = name}

\* C8: for a []string field, on either kind of collection, the field after
\* the Set calls of an environment load or a parse is the last value split
\* on commas, with no element of the default or of an earlier Set besides.
C8_StringSliceReplaces ==
    \A i \in DOMAIN flags :
        flags[i].op = "stringSliceValue" /\ SetsOf(flags[i].name) # {} =>
            main[flags[i].fld] = Split(sets[LastOf(SetsOf(flags[i].name))].val, ",")

\* The flag was set by the environment, by args twice, by the environment
\* again and by args twice again, on the pflag-style collection.
C8_Witness ==
    /\ Returned /\ fid = "compflag.FlagSet" /\ sid = "SimpleMain"
    /\ EnvSet(<<"n", "i", "n", "e">>)
    /\ Len(sets) = 2 /\ SetsOf(<<"n", "i", "n", "e">>) = {1, 2}
    /\ sets[1].val = <<"1">> /\ sets[2].val = <<"5", ",", "1">>
    /\ main.Nine = << <<"5">>, <<"1">> >>

Count(x, seq) == Cardinality({k \in DOMAIN seq : seq[k] = x})

\* The list the flag is given once: by its only occurrence in args, or by
\* the environment when args do not name it
GivenOnce(flag) ==
    IF Cardinality(Occurrences(flag.name)) = 1
    THEN Listed(flag, args[LastOf(Occurrences(flag.name))].val)
    ELSE IF ~Named(flag.name) /\ EnvSet(flag.name)
    THEN Listed(flag, environ[envKey(prefix, flag.name)])
    ELSE <<>>

OnceEach(given, held) ==
    \A k \in DOMAIN given : Count(given[k], given) = 1 => Count(given[k], held) = 1

\* C9: every slice field is bound so that Set replaces: a value given once,
\* in args or in the environment, is in the field once after the two
\* environment loads and the two parses of LoadArgsEnv.
C9_SlicesReplace ==
    Returned =>
        \A i \in DOMAIN flags :
            flags[i].op \in {"stringSliceValue", "intSlice"} /\ ~ConfigWrote(flags[i].fld)
                => OnceEach(GivenOnce(flags[i]), main[flags[i].fld])

RunOrder == <<"Flags", "Parse", "Run">>

\* C10: RunArgs binds the flags and parses args, loads no environment and
\* calls no external config; Run is called, once, only after both succeeded
\* on a Runner, and its result is returned as it is; a main that is no
\* Runner gets the fixed error; a failure of binding or parsing is returned
\* under the prefix of its step with Run not called.
C10_RunArgs ==
    op = "RunArgs" /\ pc # "panicked" =>
        /\ IsPrefix(calls, RunOrder)
        /\ lookups = <<>> /\ config = "unset"
        /\ \A i \in DOMAIN flags :
             ~Named(flags[i].name) => main[flags[i].fld] = main0[flags[i].fld]
        /\ runs = IF calls = RunOrder THEN 1 ELSE 0
        /\ runs = 1 => ImplementsRunner(sid) /\ pc = "returned" /\ err \in RunResults
        /\ pc = "returned" /\ err = NoErr => runs = 1
        /\ pc = "returned" /\ runs = 0 =>
             \/ /\ calls = <<"Flags">>
                /\ err.steps # <<>> /\ err.steps[1] = "calling Flags"
             \/ /\ calls = <<"Flags", "Parse">>
                /\ err.steps # <<>> /\ err.steps[1] = "parsing flags"
             \/ /\ calls = <<"Flags", "Parse">>
                /\ ~ImplementsRunner(sid) /\ err = NotRunner

C10_Witness ==
    /\ op = "RunArgs" /\ pc = "returned" /\ sid = "MyMain"
    /\ calls = RunOrder /\ runs = 1
    /\ err = Err("mymain error", <<>>)
    /\ args # <<>> /\ main # main0

\* C11: Flags, and RunArgs, LoadArgsEnv and cobrafy.Command with it, returns
\* an error and registers no flag when main is not a pointer or points to
\* something that is not a struct.
C11_NotPtrToStruct ==
    mtype \in NotPtrToStruct /\ calls # <<>> =>
        /\ calls = <<"Flags">> /\ pc = "returned"
        /\ err # NoErr
        /\ flags = <<>>
        /\ main = main0 /\ sets = <<>> /\ lookups = <<>> /\ runs = 0

\* cobrafy.Command was given a pointer to a map.
C11_Witness ==
    /\ op = "Command" /\ mtype = Type("ptr", "map")
    /\ pc = "returned" /\ calls = <<"Flags">>
    /\ err # NoErr /\ err.steps = <<>> /\ flags = <<>>

\* The kind that is at fault in what was passed as main
OffendingKind == IF mtype.kind # "ptr" THEN mtype.kind ELSE mtype.elem

\* C12: the error of the check of main names the offending kind: the kind of
\* main when it is no pointer, the kind pointed to when it is a pointer to
\* something that is no struct.
C12_NamesKind ==
    mtype \in NotPtrToStruct /\ calls # <<>> => err.args = <<OffendingKind>>

\* The fields of a struct at every depth
RECURSIVE AllFields(_)
AllFields(fs) ==
    UNION {{fs[i]} \cup AllFields(fs[i].sub) : i \in DOMAIN fs}

\* A field that is not to be bound: unexported, or of flag name "-" or ""
Skipped(f) == ~f.exported \/ flagName(f) = <<"-">> \/ flagName(f) = <<>>

Kept(fs) == SelectSeq(fs, LAMBDA f : ~Skipped(f))

BoundAlike(tr) == flags = tr.flags /\ err = tr.err /\ (pc = "panicked") = tr.panicked

\* C13: an unexported field and a field whose flag name is "-" or empty is
\* never bound: it has no flag, it claims no shorthand letter and its type
\* raises no error, so Flags does what it does on the struct without those
\* fields; a struct of nothing but such fields binds with no flag at all.
C13_SkippedFields ==
    op \in {"Flags", "Command", "Test"} /\ calls = <<"Flags">> /\ mtype = PtrToStruct =>
        /\ \A i \in DOMAIN flags :
             \A f \in AllFields(mainFields(sid, pick)) : Skipped(f) => flags[i].fld # f.id
        /\ Kept(mainFields(sid, pick)) = <<>>
             => flags = <<>> /\ err = NoErr /\ pc # "panicked"
        /\ BoundAlike(Flags(FlaggerOf(fid), mtype, Kept(mainFields(sid, pick)), main0))

\* The ignored field with short:"b" and a channel type comes first, and the
\* bool after it is bound with the shorthand b.
C13_Witness ==
    /\ op = "Flags" /\ fid = "compflag.FlagSet" /\ pick = <<4, 6>>
    /\ pc = "returned" /\ err = NoErr
    /\ Len(flags) = 1 /\ flags[1].fld = "Abool" /\ flags[1].short = <<"b">>

TopField(id) == CHOOSE f \in {mainFields(sid, pick)[k] : k \in DOMAIN mainFields(sid, pick)} : f.id = id

IsTopField(id) == \E k \in DOMAIN mainFields(sid, pick) : mainFields(sid, pick)[k].id = id

\* The name the tags and the Go name of a field give its flag
TagName(f) ==
    IF f.tags.flag # NoTag THEN f.tags.flag
    ELSE IF f.tags.json # NoTag THEN f.tags.json
    ELSE downcaseAndDash(f.name)

\* C14: the flag of a field is named by its "flag" tag when it has one (an
\* empty one skips the field, the "json" tag is not fallen back to), else by
\* its "json" tag, else by downcaseAndDash of its name: Aint16 with
\* json:"anint16" is "anint16", AIPNet without tags is "aip-net".
C14_FlagName ==
    mtype = PtrToStruct =>
        \A i \in DOMAIN flags :
            /\ IsTopField(flags[i].fld) => flags[i].name = TagName(TopField(flags[i].fld))
            /\ sid = "Picked" /\ flags[i].fld = "Aint16"
                 => flags[i].name = <<"a","n","i","n","t","1","6">>
            /\ flags[i].fld = "AIPNet" => flags[i].name = <<"a","i","p","-","n","e","t">>
            /\ flags[i].fld = "Abool" => flags[i].name = <<"a","-","b","o","o","l">>
            /\ flags[i].fld # "Empty" /\ flags[i].name # <<"e","m","p","t","y">>

C14_Witness ==
    /\ op = "Flags" /\ fid = "compflag.FlagSet" /\ pick = <<11, 12>>
    /\ pc = "returned" /\ err = NoErr
    /\ Len(flags) = 2
    /\ flags[1].name = <<"a","n","i","n","t","1","6">>
    /\ flags[2].name = <<"a","i","p","-","n","e","t">>

\* A '-' goes before the upper-case letter at i unless it is first, or comes
\* after an upper-case letter and is last or before an upper-case letter.
DashBefore(s, i) ==
    /\ IsUpper(s[i])
    /\ i # 1
    /\ ~(IsUpper(s[i - 1]) /\ (i = Len(s) \/ IsUpper(s[i + 1])))

RECURSIVE Dashed(_, _)
Dashed(s, i) ==
    IF i > Len(s) THEN <<>>
    ELSE (IF DashBefore(s, i) THEN <<"-">> ELSE <<>>)
            \o <<IF IsUpper(s[i]) THEN ToLowerChar(s[i]) ELSE s[i]>>
            \o Dashed(s, i + 1)

DashedAs(s, t) == input = s => output = t

\* C15: downcaseAndDash puts every letter in lower case and a '-' before an
\* upper-case letter exactly when the letter is not first and is not both
\* after an upper-case letter and last or before an upper-case letter.
C15_DowncaseAndDash ==
    op = "downcaseAndDash" /\ pc = "returned" =>
        /\ output = Dashed(input, 1)
        /\ DashedAs(<<"H","e","l","l","o","F","r","i","e","n","d">>,
                    <<"h","e","l","l","o","-","f","r","i","e","n","d">>)
        /\ DashedAs(<<"m","y","U","R","L">>, <<"m","y","-","u","r","l">>)
        /\ DashedAs(<<"U","R","L","F","i","n","d","e","r">>,
                    <<"u","r","l","-","f","i","n","d","e","r">>)
        /\ DashedAs(<<"A","A","A">>, <<"a","a","a">>)
        /\ DashedAs(<<"I","A","m","A","T","o","a","d">>,
                    <<"i","-","a","m","-","a","-","t","o","a","d">>)
        /\ DashedAs(<<"a","U","R","L","F","i","n","d","e","r">>,
                    <<"a","-","u","r","l","-","f","i","n","d","e","r">>)
        /\ DashedAs(<<"A","U","R","L","F","i","n","d","e","r">>,
                    <<"a","u","r","l","-","f","i","n","d","e","r">>)
        /\ DashedAs(<<"M","y","U","R","L","s">>, <<"m","y","-","u","r","-","l","s">>)

C15_Witness ==
    /\ op = "downcaseAndDash" /\ pc = "returned"
    /\ input = <<"M","y","U","R","L","s">>
    /\ output = <<"m","y","-","u","r","-","l","s">>

Dotted(pre, n) == IF pre = <<>> THEN n ELSE pre \o <<".">> \o n

\* The fields that are not structs of fields, at every depth, each with the
\* flag names of the fields around it and its own, joined by '.'
RECURSIVE DottedNames(_, _)
DottedNames(fs, pre) ==
    UNION { IF fs[i].sub # <<>>
            THEN DottedNames(fs[i].sub, Dotted(pre, TagName(fs[i])))
            ELSE {<<fs[i].id, Dotted(pre, TagName(fs[i]))>>} : i \in DOMAIN fs }

\* No field of the struct, at any depth, has the flag name "!embed".
NoEmbed(fs) == \A f \in AllFields(fs) : TagName(f) # Embed

\* C16: the flag of a field of a nested struct is named by the flag names of
\* the fields around it and its own, outermost first, joined by '.', each
\* once (subthing.a-bool, subthing.recursion.b-bool), and a field that is a
\* struct has no flag of its own.
C16_NestedNames ==
    mtype = PtrToStruct /\ NoEmbed(mainFields(sid, pick)) =>
        \A i \in DOMAIN flags :
            /\ <<flags[i].fld, flags[i].name>> \in DottedNames(mainFields(sid, pick), <<>>)
            /\ sid = "Picked" /\ flags[i].fld = "SubThing.SubBool"
                 => flags[i].name = <<"s","u","b","t","h","i","n","g",".","a","-","b","o","o","l">>
            /\ sid = "Picked" /\ flags[i].fld = "SubThing.Recursion.NestBool"
                 => flags[i].name = <<"s","u","b","t","h","i","n","g",".",
                                      "r","e","c","u","r","s","i","o","n",".",
                                      "b","-","b","o","o","l">>
            /\ flags[i].fld \notin {"SubThing", "SubThing.Recursion"}

C16_Witness ==
    /\ op = "Flags" /\ fid = "pflag.FlagSet" /\ pick = <<14>>
    /\ pc = "returned" /\ err = NoErr
    /\ Len(flags) = 2
    /\ flags[1].name = <<"s","u","b","t","h","i","n","g",".","a","-","b","o","o","l">>
    /\ flags[2].name = <<"s","u","b","t","h","i","n","g",".",
                         "r","e","c","u","r","s","i","o","n",".","b","-","b","o","o","l">>

\* Flags has just returned nil.
FlagsSucceeded == calls = <<"Flags">> /\ err = NoErr /\ pc # "panicked"

\* C17: right after a successful Flags the default of every registered flag
\* and the value it holds are the value the field had at the call, whatever
\* it was, and no field of main has changed.
C17_DefaultsAreValues ==
    FlagsSucceeded =>
        /\ main = main0
        /\ \A i \in DOMAIN flags :
              /\ flags[i].def = main0[flags[i].fld]
              /\ main[flags[i].fld] = main0[flags[i].fld]
              /\ ~flags[i].changed

\* An int and a float64 that were not zero at the call
C17_Witness ==
    /\ FlagsSucceeded /\ op = "Flags" /\ pick = <<1, 2>>
    /\ Len(flags) = 2
    /\ flags[1].def = main0["Aint"] /\ main0["Aint"] # ZeroOf(flags[1].op)
    /\ flags[2].def = main0["Afloat"] /\ main0["Afloat"] # ZeroOf(flags[2].op)
    /\ main = main0

\* The fields setFlags comes to, in its order: the fields that are not
\* skipped, each struct followed by the fields inside it
RECURSIVE Traversal(_)
Traversal(fs) ==
    IF fs = <<>> THEN <<>>
    ELSE (IF Skipped(Head(fs)) THEN <<>> ELSE <<Head(fs)>> \o Traversal(Head(fs).sub))
            \o Traversal(Tail(fs))

\* A short tag of one ASCII character
OneLetter(t) == t # NoTag /\ Len(t) = 1 /\ t[1] \notin NonAscii

\* The field at k names 'h' or the letter of a field before it.
Clash(seq, k) ==
    /\ OneLetter(seq[k].tags.short)
    /\ \/ seq[k].tags.short = <<"h">>
       \/ \E j \in 1..(k - 1) : seq[j].tags.short = seq[k].tags.short

\* Nothing but a clash stops setFlags at the field: its short tag is absent,
\* empty or one letter, and the collection takes its type.
Sound(f) ==
    /\ f.tags.short \in {NoTag, <<>>} \/ OneLetter(f.tags.short)
    /\ dispatch(f.typ, FlaggerOf(fid), <<>>, <<>>).kind \in {"bind", "recurse"}

FirstClash(seq, k) ==
    /\ Clash(seq, k)
    /\ \A j \in 1..(k - 1) : Sound(seq[j]) /\ ~Clash(seq, j)

AlreadyUsed(e, tag) ==
    /\ e # NoErr
    /\ e.msg = "has already been used."
    /\ e.args = <<tag>>

ClashReported(seq) ==
    \A k \in DOMAIN seq :
        FirstClash(seq, k) =>
            /\ pc = "returned"
            /\ AlreadyUsed(err, seq[k].tags.short)
            /\ \A i \in DOMAIN flags : flags[i].fld # seq[k].id

\* C18: in one Flags call, nested structs included, no two fields get the
\* same shorthand letter and none gets 'h': a short tag that names 'h' or the
\* letter of an earlier field makes Flags return an error naming that letter.
C18_NoSharedShorthand ==
    mtype = PtrToStruct /\ op \in {"Flags", "Command"} /\ calls = <<"Flags">> =>
        /\ \A i \in DOMAIN flags :
              /\ flags[i].short # <<>> => flags[i].short[1] # "h"
              /\ \A j \in DOMAIN flags :
                    i # j /\ flags[i].short # <<>> /\ flags[j].short # <<>>
                        => flags[i].short[1] # flags[j].short[1]
        /\ ClashReported(Traversal(mainFields(sid, pick)))

\* Bbool claims b, and NestBool inside SubThing names b again.
C18_Witness ==
    /\ op = "Flags" /\ fid = "pflag.FlagSet" /\ pick = <<7, 14>>
    /\ pc = "returned"
    /\ AlreadyUsed(err, <<"b">>)
    /\ Len(flags) = 2
    /\ flags[1].short = <<"b">> /\ flags[2].fld = "SubThing.SubBool"

\* A short tag that is not empty and not one ASCII character
BadShort(t) == t # NoTag /\ t # <<>> /\ ~OneLetter(t)

\* The field at k is the first setFlags stops at, and for its short tag.
FirstBadShort(seq, k) ==
    /\ BadShort(seq[k].tags.short)
    /\ \A j \in 1..(k - 1) : Sound(seq[j]) /\ ~Clash(seq, j)

BadShortRefused(seq) ==
    \A k \in DOMAIN seq :
        FirstBadShort(seq, k) =>
            /\ pc = "returned"
            /\ err # NoErr
            /\ \A i \in DOMAIN flags : flags[i].fld # seq[k].id

\* C19: a short tag that is not empty and not exactly one ASCII character
\* ("bc", or a character that is not ASCII) makes Flags return an error, and
\* no flag is bound for the field.
C19_InvalidShort ==
    mtype = PtrToStruct /\ op \in {"Flags", "Command"} /\ calls = <<"Flags">> =>
        BadShortRefused(Traversal(mainFields(sid, pick)))

FieldOf(id) == CHOOSE f \in AllFields(mainFields(sid, pick)) : f.id = id

\* Every field setFlags comes to is without a short tag or has an empty one,
\* and nothing stops setFlags at it.
NoShortTags(seq) ==
    \A k \in DOMAIN seq : Sound(seq[k]) /\ seq[k].tags.short \in {NoTag, <<>>}

Bound(f) == dispatch(f.typ, FlaggerOf(fid), <<>>, <<>>).kind = "bind"

RECURSIVE ClaimedBefore(_, _)
RECURSIVE OwnLetter(_, _)
ClaimedBefore(seq, k) ==
    IF k = 1 THEN {"h"}
    ELSE ClaimedBefore(seq, k - 1)
            \cup {OwnLetter(seq, k - 1)[j] : j \in DOMAIN OwnLetter(seq, k - 1)}

OwnLetter(seq, k) ==
    IF seq[k].tags.short # NoTag THEN seq[k].tags.short
    ELSE FirstFree(flagName(seq[k]), ClaimedBefore(seq, k))

LetterByRule(seq, id) ==
    OwnLetter(seq, CHOOSE k \in DOMAIN seq : seq[k].id = id)

FirstIsOf(names) ==
    /\ sid = "Typed" /\ op = "Flags" /\ calls = <<"Flags">>
    /\ ~FlaggerOf(fid).pflag
    /\ pick # <<>> /\ TypePool[pick[1]].typ.name \in names

\* Flags returned an error that names the first field's flag, and no flag is
\* registered.
FirstRefused ==
    /\ pc = "returned" /\ err # NoErr
    /\ err.args = <<flagName(TypePool[pick[1]])>>
    /\ flags = <<>>

\* The statement of C21 as first made: a time.Duration, net.IP, net.IPNet,
\* net.IPMask or []net.IP field on a collection that is no PFlagger makes
\* Flags return an error identifying the field, and no flag is registered.
C21_RichTypes ==
    FirstIsOf({"time.Duration", "net.IP", "net.IPNet", "net.IPMask", "[]net.IP"})
        => FirstRefused

\* C21: a net.IP, net.IPNet, net.IPMask or []net.IP field on a collection
\* that is no PFlagger makes Flags return an error identifying the field and
\* registers no flag for it; a time.Duration field is bound on every
\* collection, by DurationVar where there is no PFlagger.
C21_NetTypesNeedPFlagger ==
    /\ FirstIsOf({"net.IP", "net.IPNet", "net.IPMask", "[]net.IP"}) => FirstRefused
    /\ FirstIsOf({"time.Duration"}) =>
          /\ flags # <<>>
          /\ flags[1].fld = "Eight" /\ flags[1].op = "duration"
          /\ flags[1].name = <<"e","i","g","h","t">>
          /\ Len(pick) = 1 => pc = "returned" /\ err = NoErr

\* A net.IPMask field with flag:"ipmask" on the standard library's flag set
C21_Witness ==
    /\ FirstIsOf({"net.IPMask"}) /\ fid = "flag.FlagSet" /\ pick = <<3>>
    /\ pc = "returned" /\ err.args = << <<"i","p","m","a","s","k">> >>
    /\ flags = <<>>

\* The first field of a struct of typed fields is text-encodable, and Flags
\* has been called.
FirstEncodable ==
    /\ sid = "Typed" /\ calls # <<>> /\ calls[1] = "Flags"
    /\ pick # <<>> /\ TypePool[pick[1]].typ.enc

\* Set has been called on the flag of Eleven, the test.MyDuration.
ElevenSet ==
    /\ op = "Set" /\ pick = <<6>> /\ calls = <<"Flags", "Set">>
    /\ Len(sets) = 1

Text1130 == <<"1","1","m","3","0","s">>

\* C22: a field whose pointer type is a TextMarshaler and a TextUnmarshaler
\* (test.MyDuration, time.Time) is bound as one flag by the encodable
\* adapter, on a collection with and without PFlagger and whatever its kind
\* (the struct time.Time is not recursed into); Set(s) stores what
\* UnmarshalText(s) gives, the flag's string form is MarshalText of the
\* field, and "11m30s" gives 11 minutes 30 seconds and "11m30s" again.
C22_Encodable ==
    /\ FirstEncodable =>
          /\ flags # <<>>
          /\ flags[1].fld = TypePool[pick[1]].id
          /\ flags[1].op = "encodedValue"
          /\ flags[1].name = flagName(TypePool[pick[1]])
          /\ \A j \in DOMAIN flags : j # 1 => flags[j].fld # flags[1].fld
          /\ Len(pick) = 1 => Len(flags) = 1 /\ pc # "panicked"
    /\ ElevenSet =>
          /\ ParseDuration(sets[1].val).ok =>
                /\ err = NoErr
                /\ main["Eleven"] = ParseDuration(sets[1].val).v
                /\ output = DurationString(main["Eleven"])
          /\ ~ParseDuration(sets[1].val).ok =>
                err # NoErr /\ main["Eleven"] = main0["Eleven"]
          /\ sets[1].val = Text1130 =>
                main["Eleven"] = 11 * 60 + 30 /\ output = Text1130
          /\ sets[1].val = <<"9","0","s">> =>
                main["Eleven"] = 90 /\ output = <<"1","m","3","0","s">>

WellKnown == {"time.Duration", "net.IP", "net.IPNet", "net.IPMask", "[]net.IP"}

\* The statement of C23 as first made, on its last part: the encodable
\* adapter binds only fields whose type is none of the well-known types, of
\* no primitive kind and no slice.
C23_EncodableLast ==
    mtype = PtrToStruct =>
        \A i \in DOMAIN flags :
            flags[i].op = "encodedValue" =>
                /\ FieldOf(flags[i].fld).typ.name \notin WellKnown
                /\ FieldOf(flags[i].fld).typ.kind
                      \notin BasicKinds \cup PflagOnlyKinds \cup {"slice"}

\* The category that decides the binding of a type: the well-known types,
\* then []string, then the text-encodable types, then the primitive kinds,
\* slices, structs, and what is left
Category(t) ==
    IF t.name \in WellKnown THEN "well-known"
    ELSE IF t.name = "[]string" THEN "[]string"
    ELSE IF t.enc THEN "encodable"
    ELSE IF t.kind \in BasicKinds \cup PflagOnlyKinds THEN "primitive"
    ELSE IF t.kind = "slice" THEN "slice"
    ELSE IF t.kind = "struct" THEN "struct"
    ELSE "unsupported"

\* The binders of a category
BindersOf(c) ==
    CASE c = "well-known" -> {"duration", "ip", "ipNet", "ipMask", "ipSlice"}
      [] c = "[]string" -> {"stringSliceValue"}
      [] c = "encodable" -> {"encodedValue"}
      [] c = "primitive" -> BasicKinds \cup PflagOnlyKinds
      [] c = "slice" -> {"stringSlice", "boolSlice", "intSlice", "uintSlice"}
      [] OTHER -> {}

\* C23: the first category that matches decides the binding, in the order
\* well-known types, []string, text-encodable types, primitive kinds, slices
\* of primitives, nested struct, otherwise an unsupported-type error; the
\* encodable adapter binds every text-encodable type that is not well-known,
\* of whatever kind.
C23_DispatchOrder ==
    mtype = PtrToStruct =>
        /\ \A i \in DOMAIN flags :
              flags[i].op \in BindersOf(Category(FieldOf(flags[i].fld).typ))
        /\ FirstEncodable /\ fid # FlaggerOnly
              /\ Category(TypePool[pick[1]].typ) = "encodable" =>
              flags # <<>> /\ flags[1].op = "encodedValue"
        /\ sid = "Typed" /\ calls = <<"Flags">> /\ pick # <<>>
              /\ Category(TypePool[pick[1]].typ) = "unsupported" =>
              pc = "returned" /\ err # NoErr /\ flags = <<>>

\* Eleven, of kind int64 and text-encodable, bound by the encodable adapter,
\* and after it net.IP, text-encodable and well-known, bound as an IP
C23_Witness ==
    /\ sid = "Typed" /\ op = "Flags" /\ fid = "pflag.FlagSet" /\ pick = <<2, 6>>
    /\ pc = "returned" /\ err = NoErr
    /\ Len(flags) = 2
    /\ flags[1].op = "ip" /\ flags[2].op = "encodedValue"

\* The short tag of the field at k is refused: its first character is not
\* ASCII, or is 'h' or the first character of the short tag of a field
\* before it.
ShortFails(seq, k) ==
    LET t == seq[k].tags.short IN
    /\ t # NoTag /\ t # <<>>
    /\ \/ t[1] \in NonAscii
       \/ t[1] = "h"
       \/ \E j \in 1..(k - 1) :
              LET u == seq[j].tags.short IN
              u # NoTag /\ u # <<>> /\ u[1] = t[1]

\* setFlags returns an error at the field at k: for its short tag, or for
\* its type on this collection.
FailsAt(seq, k) ==
    \/ ShortFails(seq, k)
    \/ dispatch(seq[k].typ, FlaggerOf(fid), <<>>, <<>>).kind = "error"

\* The ids of the fields among the first n that bind a flag, in order
BoundIds(seq, n) ==
    LET bound == SelectSeq(SubSeq(seq, 1, n), Bound)
    IN  [i \in DOMAIN bound |-> bound[i].id]

FlagIds == [i \in DOMAIN flags |-> flags[i].fld]

\* C24: Flags visits the fields in declaration order, depth first, and
\* returns at the first field that fails; the flags of the fields before it
\* stay bound, and no flag is bound for it or for a field after it.
C24_FirstFailureStops ==
    mtype = PtrToStruct /\ calls = <<"Flags">> /\ pc # "panicked" =>
        LET seq == Traversal(mainFields(sid, pick))
            fails == {k \in DOMAIN seq : FailsAt(seq, k)}
        IN  IF fails = {}
            THEN err = NoErr /\ FlagIds = BoundIds(seq, Len(seq))
            ELSE LET k == CHOOSE n \in fails : \A m \in fails : n <= m
                 IN  err # NoErr /\ FlagIds = BoundIds(seq, k - 1)

\* One is bound, Aint8 is refused by a collection that is no PFlagger: the
\* flag of One stays.
C24_Witness ==
    /\ sid = "Typed" /\ op = "Flags" /\ fid = "flagSet" /\ pick = <<8, 15>>
    /\ pc = "returned" /\ err # NoErr
    /\ Len(flags) = 1 /\ flags[1].fld = "One"

\* As DottedNames, with no segment for a struct field of flag name "!embed"
RECURSIVE FlatNames(_, _)
FlatNames(fs, pre) ==
    UNION { IF fs[i].sub # <<>>
            THEN FlatNames(fs[i].sub,
                           IF TagName(fs[i]) = Embed THEN pre
                           ELSE Dotted(pre, TagName(fs[i])))
            ELSE {<<fs[i].id, Dotted(pre, TagName(fs[i]))>>} : i \in DOMAIN fs }

\* The text "!embed" is part of the name.
HasEmbed(n) == \E k \in 1..(Len(n) - 5) : SubSeq(n, k, k + 5) = Embed

\* C25: a struct field of flag name "!embed" adds no segment to the names of
\* the flags of its fields, at every depth (outer.child for a field inside
\* an "!embed" struct inside a struct bound as outer), and the text "!embed"
\* is in no flag name.
C25_EmbedEveryDepth ==
    mtype = PtrToStruct =>
        \A i \in DOMAIN flags :
            /\ <<flags[i].fld, flags[i].name>> \in FlatNames(mainFields(sid, pick), <<>>)
            /\ ~HasEmbed(flags[i].name)

\* RunArgs or LoadArgsEnv calls Parse, and Parse returns an error.
ParseFails ==
    /\ op \in {"RunArgs", "LoadArgsEnv"}
    /\ calls' = Append(calls, "Parse")
    /\ Parse(Here, args').err # NoErr

\* The words the entry point puts before the error of the Parse it is at
ParseStep ==
    IF op = "RunArgs" THEN "parsing flags"
    ELSE IF pc = "Parse" THEN "parsing command line args"
    ELSE "reparsing command line args"

\* The statement of C26 as first made: the error RunArgs and LoadArgsEnv
\* return when Parse fails is the error of Parse, as Parse produced it.
C26_ParseVerbatim ==
    [][ParseFails => err' = Parse(Here, args').err]_vars

\* C26: when Parse returns an error, RunArgs and LoadArgsEnv return at once
\* with the error of Parse behind the words that name the step ("parsing
\* flags", "parsing command line args", "reparsing command line args").
C26_ParseWrapped ==
    [][ParseFails =>
          /\ err' = Wrap(ParseStep, Parse(Here, args').err)
          /\ err' # Parse(Here, args').err
          /\ pc' = "returned"]_vars

\* RunArgs with a flag in args that is not defined
C26_Witness ==
    /\ op = "RunArgs" /\ pc = "returned" /\ calls = <<"Flags", "Parse">>
    /\ err.steps = <<"parsing flags">>
    /\ err.msg = "flag provided but not defined"
    /\ Parse(Acted(main, flags, NoErr, <<>>, <<>>), args).err.steps = <<>>

\* The flag of the name
FlagOf(n) == flags[FlagIndex(flags, n)]

\* The variable of the flag at k of names is set in the environment.
EnvGiven(names, k) == envKey(prefix, names[k]) \in DOMAIN environ

EnvValue(names, k) == environ[envKey(prefix, names[k])]

\* What Set does to the flag at k with the value of its variable
SetFromEnv(names, k) ==
    ValueSet(FlagOf(names[k]), main[FlagOf(names[k]).fld], EnvValue(names, k))

\* The first flag, in the order of the names, whose variable is set to a
\* value that Set refuses
FirstRefusedEnv(names, k) ==
    /\ EnvGiven(names, k) /\ SetFromEnv(names, k).err # NoErr
    /\ \A j \in 1..(k - 1) : EnvGiven(names, j) => SetFromEnv(names, j).err = NoErr

\* C27: when Set fails for a value taken from the environment, loadEnv stops
\* at that flag and its error carries the flag name, the raw value and the
\* environment key; the flags before it keep the values set from the
\* environment, the flags after it are not set, and LoadArgsEnv returns the
\* error before args are parsed.
C27_EnvSetFails ==
    [][op = "LoadArgsEnv" /\ pc = "loadEnv" /\ FlaggerOf(fid).namer =>
        LET names == FlagNames(flags) IN
        \A k \in DOMAIN names :
            FirstRefusedEnv(names, k) =>
                /\ pc' = "returned"
                /\ calls' = <<"Flags", "loadEnv">>
                /\ Len(err'.steps) >= 2
                /\ SubSeq(err'.steps, 1, 2) = <<"loading environment", "couldn't set from env">>
                /\ Len(err'.args) >= 3
                /\ SubSeq(err'.args, 1, 3) =
                      <<names[k], EnvValue(names, k), envKey(prefix, names[k])>>
                /\ \A j \in 1..(k - 1) :
                      main'[FlagOf(names[j]).fld] =
                          IF EnvGiven(names, j) THEN SetFromEnv(names, j).v
                          ELSE main[FlagOf(names[j]).fld]
                /\ \A j \in (k + 1)..Len(names) :
                      /\ main'[FlagOf(names[j]).fld] = main[FlagOf(names[j]).fld]
                      /\ \A n \in DOMAIN sets' : sets'[n].name # names[j]
                /\ sets'[Len(sets')].name = names[k]
      ]_vars

\* loadEnv has set one flag from the environment and failed at the next;
\* LoadArgsEnv has returned without parsing args.
C27_Witness ==
    /\ op = "LoadArgsEnv" /\ pc = "returned" /\ calls = <<"Flags", "loadEnv">>
    /\ Len(err.steps) >= 2 /\ err.steps[2] = "couldn't set from env"
    /\ Len(sets) = 2 /\ sets[1].name # sets[2].name
    /\ main # main0
    /\ args = <<>>

\* The full flag name of a field that is no struct
FullName(f) ==
    (CHOOSE p \in FlatNames(mainFields(sid, pick), <<>>) : p[1] = f.id)[2]

\* The field at k binds a flag of a name that a field before it has bound,
\* and no field before it has stopped Flags.
SecondOfName(seq, k) ==
    /\ Bound(seq[k])
    /\ \E j \in 1..(k - 1) : Bound(seq[j]) /\ FullName(seq[j]) = FullName(seq[k])
    /\ \A j \in 1..(k - 1) : ~FailsAt(seq, j)

\* C28: in one Flags call no full flag name is bound twice: a second field
\* of a name already bound (by tags, by the dotted name of a nested field, by
\* "!embed") makes Flags return an error, and no second bind is made.
C28_NoDuplicateNames ==
    mtype = PtrToStruct /\ calls # <<>> =>
        /\ \A i, j \in DOMAIN flags : flags[i].name = flags[j].name => i = j
        /\ LET seq == Traversal(mainFields(sid, pick)) IN
           \A k \in DOMAIN seq :
               SecondOfName(seq, k) => pc = "returned" /\ err # NoErr

\* The flags bound for the field
FlagsFor(f) == {i \in DOMAIN flags : flags[i].fld = f.id}

\* C29: for every exported field that is not ignored, of whatever type,
\* Flags binds exactly one flag, or recurses into it, or returns an error;
\* it never panics, be the type a named type of a supported kind, or a
\* []string or text-encodable field on a collection with the methods of
\* Flagger only.
C29_NeverPanics ==
    mtype = PtrToStruct /\ calls # <<>> /\ calls[1] = "Flags" =>
        /\ pc # "panicked"
        /\ err = NoErr =>
              LET seq == Traversal(mainFields(sid, pick)) IN
              \A k \in DOMAIN seq :
                  Cardinality(FlagsFor(seq[k])) = IF seq[k].sub # <<>> THEN 0 ELSE 1

\* The types C30 says every collection binds, by name and by capability
BoundEverywhere(t) ==
    \/ t.name \in {"string", "bool", "int", "int64", "uint", "uint64", "float64",
                   "time.Duration", "[]string"}
    \/ t.name \notin WellKnown /\ t.enc
    \/ t.name = "struct"

\* The types C30 says a PFlagger alone binds
BoundByPFlagger(t) ==
    t.name \in {"int8", "int16", "int32", "uint8", "uint16", "uint32", "float32",
                "[]bool", "[]int", "[]uint",
                "net.IP", "net.IPNet", "net.IPMask", "[]net.IP"}

\* C30: a collection that is no PFlagger binds exactly the fields of type
\* string, bool, int, int64, uint, uint64, float64, time.Duration, []string,
\* of a text-encodable type and the nested structs, and returns an error with
\* the full flag name for int8, int16, int32, uint8, uint16, uint32, float32,
\* the other slices and net.IP, net.IPNet, net.IPMask, []net.IP; a PFlagger
\* binds them all.
C30_Partition ==
    sid = "Typed" /\ calls = <<"Flags">> /\ Len(pick) = 1 =>
        LET f == TypePool[pick[1]]
            bound == /\ pc # "panicked" /\ err = NoErr
                     /\ flags # <<>>
                     /\ f.sub = <<>> => Len(flags) = 1 /\ flags[1].fld = f.id
            refused == /\ pc = "returned" /\ err # NoErr
                       /\ err.args = <<flagName(f)>>
                       /\ flags = <<>>
        IN  /\ BoundEverywhere(f.typ) => bound
            /\ BoundByPFlagger(f.typ) =>
                  IF FlaggerOf(fid).pflag THEN bound ELSE refused

====
